---- MODULE Spec2Model ----
(***************************************************************************)
(* A model of the FileTalk Form Producer: the FormSpec DSL parser           *)
(* (parser.py), the message emitter (emitter.py), the inbox scanner         *)
(* (inbox.py) and the tabbed application that drives them (app.py).         *)
(*                                                                         *)
(* Text is modelled as a sequence of one-character strings, files as        *)
(* sequences of bytes (ASCII characters stand for their own byte, the one   *)
(* non-ASCII character of the alphabet is two bytes), so that parsing,      *)
(* serialising, encoding and their inverses are computed, not assumed.      *)
(***************************************************************************)
EXTENDS Integers, Sequences, FiniteSets, TLC

VARIABLES
    config,          \* g["config"]: channel, outbox, inbox as given at startup
    tabs,            \* g["tabs"]: the open tabs, in notebook order
    current,         \* index of the notebook's selected tab
    untitled_count,  \* g["untitled_count"]
    status,          \* the status bar: message kind, colour, pending clear timer
    poll_scheduled,  \* whether root.after(_INBOX_POLL_MS, _poll_inbox) is pending
    fs,              \* the filesystem: path -> node, for the paths that exist
    tab_event,       \* whether a <<NotebookTabChanged>> event waits in Tk's queue
    writer,          \* another process's write_message in progress
    scan             \* what the last scan_inbox of the reading process returned

vars == <<config, tabs, current, untitled_count, status, poll_scheduled, fs, tab_event,
          writer, scan>>

(***************************************************************************)
(* Python's str methods, as far as the code uses them                       *)
(***************************************************************************)

Min(S) == CHOOSE m \in S : \A n \in S : m <= n

\* str.strip() and int()/float() treat these as whitespace
IsSpace(c) == c \in {" ", "\t", "\n", "\r", "\f"}

RECURSIVE LStrip(_)
LStrip(s) == IF s # <<>> /\ IsSpace(Head(s)) THEN LStrip(Tail(s)) ELSE s

RECURSIVE RStrip(_)
RStrip(s) ==
    IF s # <<>> /\ IsSpace(s[Len(s)]) THEN RStrip(SubSeq(s, 1, Len(s) - 1)) ELSE s

Strip(s) == RStrip(LStrip(s))

StartsWith(s, p) == Len(s) >= Len(p) /\ SubSeq(s, 1, Len(p)) = p

EndsWith(s, p) == Len(s) >= Len(p) /\ SubSeq(s, Len(s) - Len(p) + 1, Len(s)) = p

\* str.find(p) + 1: the position of the first occurrence of p in s, 0 if none
MinOr0(hits) == IF hits = {} THEN 0 ELSE Min(hits)

Find(s, p) ==
    MinOr0({i \in 1..(Len(s) - Len(p) + 1) : SubSeq(s, i, i + Len(p) - 1) = p})

Contains(s, p) == Find(s, p) # 0

\* str.partition(sep): <<before, sep, after>>, or <<s, "", "">> when sep is absent
PartitionAt(s, sep, i) ==
    IF i = 0 THEN <<s, <<>>, <<>>>>
    ELSE <<SubSeq(s, 1, i - 1), sep, SubSeq(s, i + Len(sep), Len(s))>>

Partition(s, sep) == PartitionAt(s, sep, Find(s, sep))

\* str.split(c) for a one-character separator: never the empty list
RECURSIVE Split(_, _)
SplitAt(s, c, i) ==
    IF i = 0 THEN <<s>>
    ELSE <<SubSeq(s, 1, i - 1)>> \o Split(SubSeq(s, i + 1, Len(s)), c)

Split(s, c) == SplitAt(s, c, Find(s, <<c>>))

\* str.splitlines() for the line breaks \n, \r and \r\n
RECURSIVE splitlines(_)
\* The first line break is at i; \r\n is one break
BreakAt(text, i) ==
    <<SubSeq(text, 1, i - 1)>>
        \o splitlines(SubSeq(text,
                              IF text[i] = "\r" /\ i < Len(text) /\ text[i + 1] = "\n"
                              THEN i + 2 ELSE i + 1,
                              Len(text)))

FirstBreak(text, i) == IF i = 0 THEN <<text>> ELSE BreakAt(text, i)

splitlines(text) ==
    IF text = <<>> THEN <<>>
    ELSE FirstBreak(text, MinOr0({i \in 1..Len(text) : text[i] \in {"\n", "\r"}}))

Digits == <<"0", "1", "2", "3", "4", "5", "6", "7", "8", "9">>

IsDigit(c) == \E d \in 1..10 : Digits[d] = c

DigitVal(c) == (CHOOSE d \in 1..10 : Digits[d] = c) - 1

\* The text int() accepts: blanks around [sign] digits, single underscores
\* allowed between digits.
Unsigned(t) == IF t # <<>> /\ t[1] \in {"+", "-"} THEN Tail(t) ELSE t

IntBody(s) == Unsigned(Strip(s))

IntBodyOk(b) ==
    /\ b # <<>>
    /\ IsDigit(b[1])
    /\ IsDigit(b[Len(b)])
    /\ \A i \in 1..Len(b) :
          \/ IsDigit(b[i])
          \/ b[i] = "_" /\ IsDigit(b[i - 1]) /\ IsDigit(b[i + 1])

IntSyntaxOk(s) == IntBodyOk(IntBody(s))

RECURSIVE DigitsValue(_, _)
DigitsValue(b, acc) ==
    IF b = <<>> THEN acc
    ELSE IF Head(b) = "_" THEN DigitsValue(Tail(b), acc)
    ELSE DigitsValue(Tail(b), 10 * acc + DigitVal(Head(b)))

Signed(t, n) == IF t[1] = "-" THEN 0 - n ELSE n

\* int(s) for a text IntSyntaxOk accepts
IntValue(s) == Signed(Strip(s), DigitsValue(IntBody(s), 0))

(***************************************************************************)
(* parser.py                                                               *)
(***************************************************************************)

\* An optional value: a dict key that may be missing, or a value or None
None == [has |-> FALSE, v |-> <<>>]

Some(x) == [has |-> TRUE, v |-> x]

kw_channel == <<"c", "h", "a", "n", "n", "e", "l", ":">>

kw_outbox == <<"o", "u", "t", "b", "o", "x", ":">>

kw_bool == <<"b", "o", "o", "l">>

kw_date == <<"d", "a", "t", "e">>

kw_time == <<"t", "i", "m", "e">>

kw_str == <<"s", "t", "r">>

kw_int == <<"i", "n", "t">>

kw_float == <<"f", "l", "o", "a", "t">>

kw_text == <<"t", "e", "x", "t">>

kw_json == <<"j", "s", "o", "n">>

kw_choice == <<"c", "h", "o", "i", "c", "e">>

\* A field dict. The keys a type does not carry hold 0 or the empty sequence.
Field(type, width, height, items, value) ==
    [id |-> <<>>, type |-> type, width |-> width, height |-> height,
     items |-> items, value |-> value]

FieldOk(f) == [ok |-> TRUE, field |-> f, reason |-> ""]

FieldErr(reason) == [ok |-> FALSE, field |-> Field("", 0, 0, <<>>, <<>>), reason |-> reason]

\* An integer parameter: ok with its value, or the reason int() or the range
\* check failed
IntParamOf(v) ==
    IF v < 1 THEN [ok |-> FALSE, v |-> v, reason |-> ">= 1"]
    ELSE [ok |-> TRUE, v |-> v, reason |-> ""]

\* An integer parameter taken without the range check
IntParamAny(s) ==
    IF ~IntSyntaxOk(s) THEN [ok |-> FALSE, v |-> 0, reason |-> "integer"]
    ELSE [ok |-> TRUE, v |-> IntValue(s), reason |-> ""]

IntParam(s) ==
    IF ~IntSyntaxOk(s) THEN [ok |-> FALSE, v |-> 0, reason |-> "integer"]
    ELSE IntParamOf(IntValue(s))

OneInt(p, type) ==
    IF p.reason = "integer" THEN FieldErr("width must be an integer")
    ELSE IF p.reason = ">= 1" THEN FieldErr("width must be >= 1")
    ELSE FieldOk(Field(type, p.v, 0, <<>>, <<>>))

_parse_one_int(s, type) == OneInt(IntParam(s), type)

TwoInts(w, h, type) ==
    IF w.reason = "integer" \/ h.reason = "integer"
    THEN FieldErr("width and height must be integers")
    ELSE IF w.v < 1 \/ h.v < 1
    THEN FieldErr("width and height must be >= 1")
    ELSE FieldOk(Field(type, w.v, h.v, <<>>, <<>>))

TwoParts(parts, type) ==
    IF Len(parts) # 2 THEN FieldErr("expected <width,height>")
    ELSE TwoInts(IntParam(parts[1]), IntParam(parts[2]), type)

_parse_two_ints(s, type) == TwoParts(Split(s, ","), type)

\* choice<...> taken with whatever items it has
ChoiceAny(items) == FieldOk(Field("choice", 0, 0, items, <<>>))

\* choice<...>: the items, stripped
ChoiceOf(items) ==
    IF items = <<>> \/ \E i \in 1..Len(items) : items[i] = <<>>
    THEN FieldErr("empty item in choice list")
    ELSE FieldOk(Field("choice", 0, 0, items, <<>>))

StripAll(raw) == [i \in 1..Len(raw) |-> Strip(raw[i])]

\* The dispatch on type_name, with the text between '<' and '>'
Parametrised(type_name, params_str) ==
    IF type_name = kw_str THEN _parse_one_int(params_str, "str")
    ELSE IF type_name = kw_int THEN _parse_one_int(params_str, "int")
    ELSE IF type_name = kw_float THEN _parse_one_int(params_str, "float")
    ELSE IF type_name = kw_text THEN _parse_two_ints(params_str, "text")
    ELSE IF type_name = kw_json THEN _parse_two_ints(params_str, "json")
    ELSE IF type_name = kw_choice THEN ChoiceOf(StripAll(Split(params_str, ",")))
    ELSE FieldErr("unknown type")

\* type_spec.partition('<') gave type_name and rest
Partitioned(type_name, rest) ==
    IF ~EndsWith(rest, <<">">>) THEN FieldErr("malformed type parameters")
    ELSE Parametrised(type_name, SubSeq(rest, 1, Len(rest) - 1))

TypePartition(part) == Partitioned(Strip(part[1]), part[3])

_parse_type_spec(type_spec) ==
    IF type_spec = kw_bool THEN FieldOk(Field("bool", 0, 0, <<>>, <<>>))
    ELSE IF type_spec = kw_date THEN FieldOk(Field("date", 0, 0, <<>>, <<>>))
    ELSE IF type_spec = kw_time THEN FieldOk(Field("time", 0, 0, <<>>, <<>>))
    ELSE IF StartsWith(type_spec, <<"\"">>)
    THEN IF ~EndsWith(type_spec, <<"\"">>) \/ Len(type_spec) < 2
         THEN FieldErr("malformed fixed value")
         ELSE FieldOk(Field("fixed", 0, 0, <<>>,
                            SubSeq(type_spec, 2, Len(type_spec) - 1)))
    ELSE IF ~Contains(type_spec, <<"<">>) THEN FieldErr("unknown type")
    ELSE TypePartition(Partition(type_spec, <<"<">>))

NoDirectives == [channel |-> None, outbox |-> None]

\* A directive's value stored even when it is empty
SetChannelAny(value, directives) == [directives EXCEPT !.channel = Some(value)]

\* A directive's value, stripped: stored when it is not empty
SetChannel(value, directives) ==
    IF value # <<>> THEN [directives EXCEPT !.channel = Some(value)] ELSE directives

SetOutbox(value, directives) ==
    IF value # <<>> THEN [directives EXCEPT !.outbox = Some(value)] ELSE directives

DirectiveOf(content, directives) ==
    IF StartsWith(content, kw_channel)
    THEN SetChannel(Strip(SubSeq(content, Len(kw_channel) + 1, Len(content))), directives)
    ELSE IF StartsWith(content, kw_outbox)
    THEN SetOutbox(Strip(SubSeq(content, Len(kw_outbox) + 1, Len(content))), directives)
    ELSE directives

\* line is stripped and starts with '#'
_parse_directive_line(line, directives) == DirectiveOf(Strip(Tail(line)), directives)

ParseOk(directives, fields) ==
    [ok |-> TRUE, directives |-> directives, fields |-> fields, lineno |-> 0, reason |-> ""]

\* ParseError: nothing of the parse in progress is returned
ParseErr(lineno, reason) ==
    [ok |-> FALSE, directives |-> NoDirectives, fields |-> <<>>, lineno |-> lineno,
     reason |-> reason]

\* The inline comment is cut off the right-hand side
TypeSpecOf(right, hash) == IF hash # 0 THEN Strip(SubSeq(right, 1, hash - 1)) ELSE right

TypeSpec(right) == TypeSpecOf(right, Find(right, <<"#">>))

\* The loop of parse_spec from line lineno on, with the locals it has built so far
RECURSIVE ParseLines(_, _, _, _, _)
\* A field line taken without comparing its identifier with the earlier ones
FieldLineAnyId(lines, lineno, directives, fields, seen_ids, identifier, field) ==
    IF identifier = <<>> THEN ParseErr(lineno, "empty identifier")
    ELSE IF ~field.ok THEN ParseErr(lineno, field.reason)
    ELSE ParseLines(lines, lineno + 1, directives,
                    Append(fields, [field.field EXCEPT !.id = identifier]),
                    seen_ids \cup {identifier})

\* A field line whose type is parsed before its identifier is compared
FieldLineTypeFirst(lines, lineno, directives, fields, seen_ids, identifier, field) ==
    IF identifier = <<>> THEN ParseErr(lineno, "empty identifier")
    ELSE IF ~field.ok THEN ParseErr(lineno, field.reason)
    ELSE IF identifier \in seen_ids THEN ParseErr(lineno, "duplicate identifier")
    ELSE ParseLines(lines, lineno + 1, directives,
                    Append(fields, [field.field EXCEPT !.id = identifier]),
                    seen_ids \cup {identifier})

\* A field line, its identifier and its parsed type (or the error of that)
FieldLine(lines, lineno, directives, fields, seen_ids, identifier, field) ==
    IF identifier = <<>> THEN ParseErr(lineno, "empty identifier")
    ELSE IF identifier \in seen_ids THEN ParseErr(lineno, "duplicate identifier")
    ELSE IF ~field.ok THEN ParseErr(lineno, field.reason)
    ELSE ParseLines(lines, lineno + 1, directives,
                    Append(fields, [field.field EXCEPT !.id = identifier]),
                    seen_ids \cup {identifier})

Separated(lines, lineno, directives, fields, seen_ids, part) ==
    FieldLine(lines, lineno, directives, fields, seen_ids,
              Strip(part[1]), _parse_type_spec(TypeSpec(Strip(part[3]))))

\* One line of the loop, stripped
Line(lines, lineno, directives, fields, seen_ids, line) ==
    IF line = <<>> THEN ParseLines(lines, lineno + 1, directives, fields, seen_ids)
    ELSE IF StartsWith(line, <<"#">>)
    THEN ParseLines(lines, lineno + 1, _parse_directive_line(line, directives),
                    fields, seen_ids)
    ELSE IF ~Contains(line, <<"-", "-">>) THEN ParseErr(lineno, "missing '--' separator")
    ELSE Separated(lines, lineno, directives, fields, seen_ids,
                   Partition(line, <<"-", "-">>))

ParseLines(lines, lineno, directives, fields, seen_ids) ==
    IF lineno > Len(lines) THEN ParseOk(directives, fields)
    ELSE Line(lines, lineno, directives, fields, seen_ids, Strip(lines[lineno]))

NonBlank(line) == Strip(line) # <<>>

\* A parse that numbers the lines without the blank ones
ParseNonBlank(text) ==
    ParseLines(SelectSeq(splitlines(text), NonBlank), 1, NoDirectives, <<>>, {})

parse_spec(text) == ParseLines(splitlines(text), 1, NoDirectives, <<>>, {})

(***************************************************************************)
(* JSON values, json.dumps(ensure_ascii=False) and json.loads               *)
(***************************************************************************)

JStr(s) == [t |-> "str", s |-> s]

JInt(n) == [t |-> "int", n |-> n]

\* A float: finite (-1)^neg * mant * 10^exp with exp <= 0 and no trailing zero
\* digit in mant when exp < 0, or an infinity, or NaN
JFloat(kind, neg, mant, exp) ==
    [t |-> "float", kind |-> kind, neg |-> neg, mant |-> mant, exp |-> exp]

JBool(b) == [t |-> "bool", b |-> b]

JNull == [t |-> "null"]

JArr(a) == [t |-> "arr", a |-> a]

\* A dict: its items in insertion order, each <<key, value>>
JObj(kv) == [t |-> "obj", kv |-> kv]

EmptyDict == JObj(<<>>)

HasKey(obj, k) == \E i \in 1..Len(obj.kv) : obj.kv[i][1] = k

\* dict.get(k): the value, or None (JNull) when the key is missing
Get(obj, k) ==
    IF HasKey(obj, k)
    THEN obj.kv[CHOOSE i \in 1..Len(obj.kv) : obj.kv[i][1] = k][2]
    ELSE JNull

\* d[k] = v: a new key goes last, an existing key keeps its place
Put(obj, k, v) ==
    IF HasKey(obj, k)
    THEN JObj([i \in 1..Len(obj.kv) |->
                  IF obj.kv[i][1] = k THEN <<k, v>> ELSE obj.kv[i]])
    ELSE JObj(Append(obj.kv, <<k, v>>))

Keys(obj) == [i \in 1..Len(obj.kv) |-> obj.kv[i][1]]

RECURSIVE NormFloat(_, _, _)
NormFloat(neg, mant, exp) ==
    IF exp < 0 /\ mant % 10 = 0 THEN NormFloat(neg, mant \div 10, exp + 1)
    ELSE JFloat("finite", neg, mant, exp)

RECURSIVE NatRepr(_)
NatRepr(n) == IF n < 10 THEN <<Digits[n + 1]>> ELSE Append(NatRepr(n \div 10), Digits[(n % 10) + 1])

IntRepr(n) == IF n < 0 THEN <<"-">> \o NatRepr(0 - n) ELSE NatRepr(n)

RECURSIVE Pow10(_)
Pow10(k) == IF k = 0 THEN 1 ELSE 10 * Pow10(k - 1)

RECURSIVE ZeroPad(_, _)
ZeroPad(s, width) == IF Len(s) >= width THEN s ELSE ZeroPad(<<"0">> \o s, width)

\* The digits of a finite float around the point; p is 10^(-exp)
Fixed(f, p) ==
    NatRepr(f.mant \div p) \o <<".">>
        \o (IF f.exp = 0 THEN <<"0">> ELSE ZeroPad(NatRepr(f.mant % p), 0 - f.exp))

\* float.__repr__ (also str(float)), for the magnitudes that print without an
\* exponent
FloatRepr(f) ==
    IF f.kind = "nan" THEN <<"n", "a", "n">>
    ELSE IF f.kind = "inf"
    THEN (IF f.neg THEN <<"-">> ELSE <<>>) \o <<"i", "n", "f">>
    ELSE (IF f.neg THEN <<"-">> ELSE <<>>) \o Fixed(f, Pow10(0 - f.exp))

\* The one character of the alphabet outside ASCII (U+00E9), two bytes in UTF-8
U_E9 == "U+00E9"

EscapeChar(c) ==
    CASE c = "\"" -> <<"\\", "\"">>
      [] c = "\\" -> <<"\\", "\\">>
      [] c = "\n" -> <<"\\", "n">>
      [] c = "\r" -> <<"\\", "r">>
      [] c = "\t" -> <<"\\", "t">>
      [] c = "\f" -> <<"\\", "f">>
      [] OTHER    -> <<c>>

RECURSIVE EscapeString(_)
EscapeString(s) ==
    IF s = <<>> THEN <<>>
    ELSE IF Len(s) = 1 THEN EscapeChar(s[1])
    ELSE EscapeString(SubSeq(s, 1, Len(s) \div 2))
             \o EscapeString(SubSeq(s, Len(s) \div 2 + 1, Len(s)))

QuoteString(s) == <<"\"">> \o EscapeString(s) \o <<"\"">>

\* json.dumps(v, ensure_ascii=False): the separators are ", " and ": "
RECURSIVE dumps(_)
RECURSIVE DumpItems(_, _)
DumpItems(kv, i) ==
    QuoteString(kv[i][1]) \o <<":", " ">> \o dumps(kv[i][2])
        \o (IF i = Len(kv) THEN <<>> ELSE <<",", " ">> \o DumpItems(kv, i + 1))

RECURSIVE DumpElements(_, _)
DumpElements(a, i) ==
    dumps(a[i]) \o (IF i = Len(a) THEN <<>> ELSE <<",", " ">> \o DumpElements(a, i + 1))

dumps(v) ==
    CASE v.t = "str"   -> QuoteString(v.s)
      [] v.t = "int"   -> IntRepr(v.n)
      [] v.t = "float" -> IF v.kind = "nan" THEN <<"N", "a", "N">>
                          ELSE IF v.kind = "inf"
                          THEN (IF v.neg THEN <<"-">> ELSE <<>>)
                                   \o <<"I", "n", "f", "i", "n", "i", "t", "y">>
                          ELSE FloatRepr(v)
      [] v.t = "bool"  -> IF v.b THEN <<"t", "r", "u", "e">> ELSE <<"f", "a", "l", "s", "e">>
      [] v.t = "null"  -> <<"n", "u", "l", "l">>
      [] v.t = "arr"   -> IF v.a = <<>> THEN <<"[", "]">>
                          ELSE <<"[">> \o DumpElements(v.a, 1) \o <<"]">>
      [] v.t = "obj"   -> IF v.kv = <<>> THEN <<"{", "}">>
                          ELSE <<"{">> \o DumpItems(v.kv, 1) \o <<"}">>

\* The character at position i, "" past the end
At(s, i) == IF i >= 1 /\ i <= Len(s) THEN s[i] ELSE ""

MatchAt(s, i, p) == i + Len(p) - 1 <= Len(s) /\ SubSeq(s, i, i + Len(p) - 1) = p

\* A decoding step: ok with the value and the position after it, or not ok
Parsed(v, i) == [ok |-> TRUE, v |-> v, i |-> i]

NotParsed == [ok |-> FALSE, v |-> JNull, i |-> 0]

RECURSIVE SkipWs(_, _)
SkipWs(s, i) == IF At(s, i) \in {" ", "\t", "\n", "\r"} THEN SkipWs(s, i + 1) ELSE i

RECURSIVE SkipDigits(_, _)
SkipDigits(s, i) == IF IsDigit(At(s, i)) THEN SkipDigits(s, i + 1) ELSE i

Unescape(c) ==
    CASE c = "\"" -> "\""
      [] c = "\\" -> "\\"
      [] c = "/"  -> "/"
      [] c = "n"  -> "\n"
      [] c = "r"  -> "\r"
      [] c = "t"  -> "\t"
      [] c = "f"  -> "\f"
      [] OTHER    -> ""

\* The length of the run of backslashes that ends before position j
RECURSIVE Backslashes(_, _)
Backslashes(s, j) == IF j > 1 /\ s[j - 1] = "\\" THEN 1 + Backslashes(s, j - 1) ELSE 0

\* Whether the character at position j follows an odd run of backslashes
Escaped(s, j) == Backslashes(s, j) % 2 = 1

\* The characters at the positions idx, the escapes resolved
Unescaped(s, idx) ==
    [n \in 1..Len(idx) |-> IF Escaped(s, idx[n]) THEN Unescape(s[idx[n]]) ELSE s[idx[n]]]

\* The literal's body is s[j..close-1]: no raw control character, no unknown
\* escape
StringTo(s, j, close) ==
    IF close = 0 THEN NotParsed
    ELSE IF \E k \in j..(close - 1) :
               \/ s[k] \in {"\n", "\r", "\t", "\f"}
               \/ Escaped(s, k) /\ Unescape(s[k]) = ""
    THEN NotParsed
    ELSE Parsed(JStr(Unescaped(s, SelectSeq([k \in 1..(close - j) |-> j + k - 1],
                                            LAMBDA k : Escaped(s, k) \/ s[k] # "\\"))),
                close + 1)

\* A string literal whose body starts at position j (strict: no raw control
\* characters); the escapes \b and \uXXXX are outside the modelled alphabet
ScanString(s, j) ==
    StringTo(s, j, MinOr0({k \in j..Len(s) : s[k] = "\"" /\ ~Escaped(s, k)}))

\* NUMBER_RE without the exponent part: -?(0|[1-9]\d*)(\.\d+)?
\* The integer part is s[a..b-1], the fraction s[b+1..c-1] when c > b
NumberOf(s, neg, a, b, c) ==
    IF b = a THEN NotParsed
    ELSE IF c = b THEN Parsed(JInt(Signed(IF neg THEN <<"-">> ELSE <<"+">>,
                                          DigitsValue(SubSeq(s, a, b - 1), 0))), b)
    ELSE Parsed(NormFloat(neg, DigitsValue(SubSeq(s, a, b - 1) \o SubSeq(s, b + 1, c - 1), 0),
                          0 - (c - b - 1)), c)

ScanFraction(s, neg, a, b) ==
    NumberOf(s, neg, a, b,
             IF At(s, b) = "." /\ IsDigit(At(s, b + 1)) THEN SkipDigits(s, b + 1) ELSE b)

ScanInteger(s, neg, a) ==
    ScanFraction(s, neg, a, IF At(s, a) = "0" THEN a + 1 ELSE SkipDigits(s, a))

ScanNumber(s, i) == ScanInteger(s, At(s, i) = "-", IF At(s, i) = "-" THEN i + 1 ELSE i)

RECURSIVE ScanValue(_, _)
RECURSIVE ScanMembers(_, _, _)
\* After a member: '}' ends the object, ',' continues it
MemberEnd(s, m, acc) ==
    IF At(s, m) = "}" THEN Parsed(acc, m + 1)
    ELSE IF At(s, m) = "," THEN ScanMembers(s, SkipWs(s, m + 1), acc)
    ELSE NotParsed

MemberValue(s, acc, key, val) ==
    IF ~val.ok THEN NotParsed
    ELSE MemberEnd(s, SkipWs(s, val.i), Put(acc, key, val.v))

MemberColon(s, acc, key, k) ==
    IF At(s, k) # ":" THEN NotParsed
    ELSE MemberValue(s, acc, key, ScanValue(s, SkipWs(s, k + 1)))

MemberKey(s, acc, key) ==
    IF ~key.ok THEN NotParsed ELSE MemberColon(s, acc, key.v.s, SkipWs(s, key.i))

ScanMembers(s, j, acc) ==
    IF At(s, j) # "\"" THEN NotParsed
    ELSE MemberKey(s, acc, ScanString(s, j + 1))

RECURSIVE ScanElements(_, _, _)
ElementEnd(s, m, acc) ==
    IF At(s, m) = "]" THEN Parsed(JArr(acc), m + 1)
    ELSE IF At(s, m) = "," THEN ScanElements(s, SkipWs(s, m + 1), acc)
    ELSE NotParsed

ElementValue(s, acc, val) ==
    IF ~val.ok THEN NotParsed ELSE ElementEnd(s, SkipWs(s, val.i), Append(acc, val.v))

ScanElements(s, j, acc) == ElementValue(s, acc, ScanValue(s, j))

\* '{' was read; j is the position of what follows its blanks
ScanObject(s, j) ==
    IF At(s, j) = "}" THEN Parsed(EmptyDict, j + 1) ELSE ScanMembers(s, j, EmptyDict)

ScanArray(s, j) ==
    IF At(s, j) = "]" THEN Parsed(JArr(<<>>), j + 1) ELSE ScanElements(s, j, <<>>)

ScanAt(s, i, c) ==
    IF c = "\"" THEN ScanString(s, i + 1)
    ELSE IF c = "{" THEN ScanObject(s, SkipWs(s, i + 1))
    ELSE IF c = "[" THEN ScanArray(s, SkipWs(s, i + 1))
    ELSE IF MatchAt(s, i, <<"n", "u", "l", "l">>) THEN Parsed(JNull, i + 4)
    ELSE IF MatchAt(s, i, <<"t", "r", "u", "e">>) THEN Parsed(JBool(TRUE), i + 4)
    ELSE IF MatchAt(s, i, <<"f", "a", "l", "s", "e">>) THEN Parsed(JBool(FALSE), i + 5)
    ELSE IF IsDigit(c) \/ (c = "-" /\ IsDigit(At(s, i + 1))) THEN ScanNumber(s, i)
    ELSE IF MatchAt(s, i, <<"N", "a", "N">>)
    THEN Parsed(JFloat("nan", FALSE, 0, 0), i + 3)
    ELSE IF MatchAt(s, i, <<"I", "n", "f", "i", "n", "i", "t", "y">>)
    THEN Parsed(JFloat("inf", FALSE, 0, 0), i + 8)
    ELSE IF MatchAt(s, i, <<"-", "I", "n", "f", "i", "n", "i", "t", "y">>)
    THEN Parsed(JFloat("inf", TRUE, 0, 0), i + 9)
    ELSE NotParsed

ScanValue(s, i) == ScanAt(s, i, At(s, i))

\* The document is one value with blanks around it
Document(s, r) ==
    IF r.ok /\ SkipWs(s, r.i) = Len(s) + 1 THEN [ok |-> TRUE, v |-> r.v]
    ELSE [ok |-> FALSE, v |-> JNull]

\* json.loads(s): ok with the value, or not ok for json.JSONDecodeError
loads(s) == Document(s, ScanValue(s, SkipWs(s, 1)))

(***************************************************************************)
(* Files: UTF-8 and the directory tree                                      *)
(***************************************************************************)

\* str.encode('utf-8'): an ASCII character is its own byte, U+00E9 is C3 A9
RECURSIVE Encode(_)
Encode(s) ==
    IF s = <<>> THEN <<>>
    ELSE IF Len(s) = 1 THEN (IF s[1] = U_E9 THEN <<"C3", "A9">> ELSE s)
    ELSE Encode(SubSeq(s, 1, Len(s) \div 2)) \o Encode(SubSeq(s, Len(s) \div 2 + 1, Len(s)))

\* The bytes are UTF-8: a lead byte has its continuation byte, a continuation
\* byte its lead byte, and the byte FF is nowhere
IsUtf8(b) ==
    \A i \in 1..Len(b) :
        CASE b[i] = "C3" -> i < Len(b) /\ b[i + 1] = "A9"
          [] b[i] = "A9" -> i > 1 /\ b[i - 1] = "C3"
          [] b[i] = "FF" -> FALSE
          [] OTHER       -> TRUE

\* The characters of UTF-8 bytes: one for each byte that is not a continuation
Chars(lead) == [i \in 1..Len(lead) |-> IF lead[i] = "C3" THEN U_E9 ELSE lead[i]]

\* bytes.decode('utf-8'): not ok is UnicodeDecodeError
Decode(b) ==
    IF IsUtf8(b) THEN [ok |-> TRUE, s |-> Chars(SelectSeq(b, LAMBDA x : x # "A9"))]
    ELSE [ok |-> FALSE, s |-> <<>>]

\* A path is the sequence of its components below the working directory; the
\* filesystem maps the paths that exist to a directory or to a file's bytes.
\* held marks a file the operating system will not let this process remove (its
\* directory is not writable by it, or another process keeps the file open).
DirNode == [kind |-> "dir", data |-> <<>>, held |-> FALSE]

FileNode(bytes) == [kind |-> "file", data |-> bytes, held |-> FALSE]

HeldNode(bytes) == [kind |-> "file", data |-> bytes, held |-> TRUE]

Cwd == <<>>

\* The components of a relative path given as text
PathOf(text) == SelectSeq(Split(text, "/"), LAMBDA c : c # <<>> /\ c # <<".">>)

Parent(p) == SubSeq(p, 1, Len(p) - 1)

\* os.path.join(dir, filename)
Join(dir, filename) == Append(dir, filename)

exists(f, p) == p \in DOMAIN f

isdir(f, p) == p \in DOMAIN f /\ f[p].kind = "dir"

\* os.mkdir(p): OSError when p exists or its parent is no directory
MkdirOk(f, p) == p # Cwd /\ ~exists(f, p) /\ isdir(f, Parent(p))

\* os.makedirs(p, exist_ok=True): the missing ancestors first, then p itself;
\* the error of the final mkdir is raised unless p is a directory by then
RECURSIVE makedirs(_, _)
\* up is what became of the ancestors
MkdirLast(up, p) ==
    IF ~up.ok THEN [ok |-> FALSE, fs |-> up.fs]
    ELSE IF MkdirOk(up.fs, p) THEN [ok |-> TRUE, fs |-> (p :> DirNode) @@ up.fs]
    ELSE [ok |-> isdir(up.fs, p), fs |-> up.fs]

\* os.mkdir alone: the directory itself, its parent being there
MkdirOnly(f, p) == MkdirLast([ok |-> TRUE, fs |-> f], p)

makedirs(f, p) ==
    MkdirLast(IF p # Cwd /\ Parent(p) # Cwd /\ ~exists(f, Parent(p))
              THEN makedirs(f, Parent(p))
              ELSE [ok |-> TRUE, fs |-> f],
              p)

\* open(p, 'w'): creates or truncates the file; OSError when p is a directory
\* or its parent is none
OpenWOk(f, p) == isdir(f, Parent(p)) /\ ~isdir(f, p)

SetFile(f, p, bytes) == (p :> FileNode(bytes)) @@ f

\* os.remove(p): OSError when p is no file or the system holds it
RemoveOk(f, p) == exists(f, p) /\ f[p].kind = "file" /\ ~f[p].held

Remove(f, p) == [q \in DOMAIN f \ {p} |-> f[q]]

\* Code point order of the characters file names are made of
CharOrder ==
    <<"-", ".", "0", "1", "2", "3", "4", "5", "6", "7", "8", "9", "_",
      "a", "b", "c", "d", "e", "f", "g", "h", "i", "j", "k", "l", "m",
      "n", "o", "p", "q", "r", "s", "t", "u", "v", "w", "x", "y", "z">>

Ord(c) == CHOOSE i \in 1..Len(CharOrder) : CharOrder[i] = c

\* a < b for str
RECURSIVE StrLess(_, _)
StrLess(a, b) ==
    IF b = <<>> THEN FALSE
    ELSE IF a = <<>> THEN TRUE
    ELSE IF Head(a) = Head(b) THEN StrLess(Tail(a), Tail(b))
    ELSE Ord(Head(a)) < Ord(Head(b))

\* sorted(S) for a set of str
RECURSIVE Sorted(_)
SortedFrom(S, m) == <<m>> \o Sorted(S \ {m})

Sorted(S) ==
    IF S = {} THEN <<>>
    ELSE SortedFrom(S, CHOOSE x \in S : \A y \in S \ {x} : StrLess(x, y))

\* os.listdir(dir), as a set
listdir(f, dir) == {p[Len(p)] : p \in {q \in DOMAIN f : q # Cwd /\ Parent(q) = dir}}

(***************************************************************************)
(* emitter.py                                                              *)
(***************************************************************************)

s_channel == <<"c", "h", "a", "n", "n", "e", "l">>

s_timestamp == <<"t", "i", "m", "e", "s", "t", "a", "m", "p">>

s_signal == <<"s", "i", "g", "n", "a", "l">>

dot_json == <<".", "j", "s", "o", "n">>

\* An envelope whose timestamp is the float itself
BuildWithFloat(signal, channel, now) ==
    JObj(<< <<s_channel, channel>>, <<s_timestamp, now>>, <<s_signal, signal>> >>)

\* now is time.time()
build_message(signal, channel, now) ==
    JObj(<< <<s_channel, channel>>, <<s_timestamp, JStr(FloatRepr(now))>>,
            <<s_signal, signal>> >>)

\* What json.dump(message, f, ensure_ascii=False); f.write('\n') sends to the file
MessageBytes(message) == Encode(dumps(message) \o <<"\n">>)

\* The result of write_message: the filename, or EmitError with what raised it
Emitted(filename, f) == [ok |-> TRUE, filename |-> filename, error |-> "", fs |-> f]

EmitError(error, f) == [ok |-> FALSE, filename |-> <<>>, error |-> error, fs |-> f]

\* The with-block of write_message, the directory made: f is the filesystem by
\* then, bytes what the block sends to the file
WriteFile(f, filename, filepath, bytes, fault, cut) ==
    IF fault = "open" \/ ~OpenWOk(f, filepath) THEN EmitError("Cannot write file", f)
    ELSE IF fault = "write"
    THEN EmitError("Cannot write file", SetFile(f, filepath, SubSeq(bytes, 1, cut)))
    ELSE Emitted(filename, SetFile(f, filepath, bytes))

Made(made, message, outbox_path, filename, fault, cut) ==
    IF ~made.ok THEN EmitError("Cannot create OUTBOX directory", made.fs)
    ELSE WriteFile(made.fs, filename, Join(outbox_path, filename), MessageBytes(message),
                   fault, cut)

\* write_message(message, outbox_path) run to its end. uuid is str(uuid.uuid4());
\* fault is what the operating system does to the write: "none", "open" (open()
\* raises OSError), or "write" (the file is opened, then a write or the closing
\* flush raises OSError after cut bytes have reached the file).
write_message(f, message, outbox_path, uuid, fault, cut) ==
    Made(makedirs(f, outbox_path), message, outbox_path, uuid \o dot_json, fault, cut)

emit_message(f, signal, channel, outbox_path, now, uuid, fault, cut) ==
    write_message(f, build_message(signal, channel, now), outbox_path, uuid, fault, cut)

(***************************************************************************)
(* inbox.py                                                                *)
(***************************************************************************)

\* with open(filepath, 'r', encoding='utf-8') as f: data = json.load(f)
\*   "oserror"  open() or read() raised OSError (here: the entry is a directory)
\*   "unicode"  the bytes are not UTF-8: UnicodeDecodeError
\*   "json"     json.JSONDecodeError
\*   "ok"       data is the parsed value
Loaded(r) == IF r.ok THEN [how |-> "ok", data |-> r.v] ELSE [how |-> "json", data |-> JNull]

Read(text) == IF ~text.ok THEN [how |-> "unicode", data |-> JNull] ELSE Loaded(loads(text.s))

ReadJson(f, filepath) ==
    IF f[filepath].kind # "file" THEN [how |-> "oserror", data |-> JNull]
    ELSE Read(Decode(f[filepath].data))

\* The loop of scan_inbox over entries[i..]: the except clause names OSError and
\* json.JSONDecodeError, so a UnicodeDecodeError leaves the function through
\* the loop
RECURSIVE ScanEntries(_, _, _, _, _)
\* The entry ends in .json and r is what reading it gave
Entry(f, inbox_path, entries, i, results, filepath, r) ==
    IF r.how = "unicode" THEN [raised |-> "UnicodeDecodeError", results |-> <<>>]
    ELSE IF r.how \in {"oserror", "json"}
    THEN ScanEntries(f, inbox_path, entries, i + 1, results)
    ELSE IF r.data.t = "obj"
    THEN ScanEntries(f, inbox_path, entries, i + 1,
                     Append(results, [filepath |-> filepath, message |-> r.data]))
    ELSE ScanEntries(f, inbox_path, entries, i + 1, results)

ScanEntries(f, inbox_path, entries, i, results) ==
    IF i > Len(entries) THEN [raised |-> "", results |-> results]
    ELSE IF ~EndsWith(entries[i], dot_json)
    THEN ScanEntries(f, inbox_path, entries, i + 1, results)
    ELSE Entry(f, inbox_path, entries, i, results, Join(inbox_path, entries[i]),
               ReadJson(f, Join(inbox_path, entries[i])))

\* scan_inbox(inbox_path): the list it returns, or the exception that escapes it
\* (every directory of this filesystem can be listed, so the except branch of
\* os.listdir is never taken)
scan_inbox(f, inbox_path) ==
    IF ~isdir(f, inbox_path) THEN [raised |-> "", results |-> <<>>]
    ELSE ScanEntries(f, inbox_path, Sorted(listdir(f, inbox_path)), 1, <<>>)

s_text == <<"t", "e", "x", "t">>

\* A filter that wants the text not to be empty
TextWithContent(message) ==
    /\ message.t = "obj"
    /\ Get(message, s_channel) = JStr(s_text)
    /\ Get(message, s_signal).t = "str"
    /\ Get(message, s_signal).s # <<>>

is_text_message(message) ==
    /\ message.t = "obj"
    /\ Get(message, s_channel) = JStr(s_text)
    /\ Get(message, s_signal).t = "str"

(***************************************************************************)
(* app.py: value collection and validation                                  *)
(***************************************************************************)

AllDigits(s) == \A i \in 1..Len(s) : IsDigit(s[i])

Lower(c) ==
    CASE c = "I" -> "i" [] c = "N" -> "n" [] c = "F" -> "f" [] c = "A" -> "a"
      [] c = "T" -> "t" [] c = "Y" -> "y" [] OTHER -> c

\* float(s) without the exponent form: blanks around [sign] and then inf,
\* infinity or nan in any case, or digits with at most one point (single
\* underscores allowed between digits)
Decimal(neg, ipart, fpart) ==
    IF /\ ipart = <<>> \/ IntBodyOk(ipart)
       /\ fpart = <<>> \/ IntBodyOk(fpart)
       /\ Len(ipart) + Len(fpart) > 0
    THEN [ok |-> TRUE, v |-> NormFloat(neg, DigitsValue(ipart \o fpart, 0),
                                       0 - Len(SelectSeq(fpart, IsDigit)))]
    ELSE [ok |-> FALSE, v |-> JFloat("nan", FALSE, 0, 0)]

PointAt(neg, b, dot) ==
    Decimal(neg, IF dot = 0 THEN b ELSE SubSeq(b, 1, dot - 1),
            IF dot = 0 THEN <<>> ELSE SubSeq(b, dot + 1, Len(b)))

FloatBody(neg, b, low) ==
    IF low \in {<<"i", "n", "f">>, <<"i", "n", "f", "i", "n", "i", "t", "y">>}
    THEN [ok |-> TRUE, v |-> JFloat("inf", neg, 0, 0)]
    ELSE IF low = <<"n", "a", "n">> THEN [ok |-> TRUE, v |-> JFloat("nan", FALSE, 0, 0)]
    ELSE PointAt(neg, b, Find(b, <<".">>))

FloatSigned(neg, b) == FloatBody(neg, b, [i \in 1..Len(b) |-> Lower(b[i])])

FloatStripped(t) == FloatSigned(t # <<>> /\ t[1] = "-", Unsigned(t))

FloatParse(s) == FloatStripped(Strip(s))

\* math.isfinite
isfinite(f) == f.kind = "finite"

DaysIn(year, month) ==
    IF month = 2
    THEN (IF year % 4 = 0 /\ (year % 100 # 0 \/ year % 400 = 0) THEN 29 ELSE 28)
    ELSE IF month \in {4, 6, 9, 11} THEN 30 ELSE 31

\* datetime.date.fromisoformat(s) does not raise. Modelled for texts in the
\* extended form yyyy-mm-dd; the basic and week forms of ISO 8601, which newer
\* interpreters accept as well, are outside the texts the model types.
DateExists(y, m, d) == y >= 1 /\ m \in 1..12 /\ d >= 1 /\ d <= DaysIn(y, m)

DateOk(s) ==
    /\ Len(s) = 10
    /\ s[5] = "-" /\ s[8] = "-"
    /\ AllDigits(SubSeq(s, 1, 4)) /\ AllDigits(SubSeq(s, 6, 7)) /\ AllDigits(SubSeq(s, 9, 10))
    /\ DateExists(DigitsValue(SubSeq(s, 1, 4), 0), DigitsValue(SubSeq(s, 6, 7), 0),
                  DigitsValue(SubSeq(s, 9, 10), 0))

\* datetime.time.fromisoformat(s) does not raise. Modelled for hh, hh:mm and
\* hh:mm:ss; fractions, offsets and the basic forms, which newer interpreters
\* accept as well, are outside the texts the model types.
TimeOk(s) ==
    /\ Len(s) \in {2, 5, 8}
    /\ \A i \in 1..Len(s) : IF i \in {3, 6} THEN s[i] = ":" ELSE IsDigit(s[i])
    /\ DigitsValue(SubSeq(s, 1, 2), 0) <= 23
    /\ Len(s) >= 5 => DigitsValue(SubSeq(s, 4, 5), 0) <= 59
    /\ Len(s) >= 8 => DigitsValue(SubSeq(s, 7, 8), 0) <= 59

Valid(v) == [ok |-> TRUE, v |-> v, message |-> ""]

Invalid(message) == [ok |-> FALSE, v |-> JNull, message |-> message]

\* The checks of the loop of _collect_values_from_tab, on raw.strip()
IntField(t) ==
    IF IntSyntaxOk(t) THEN Valid(JInt(IntValue(t))) ELSE Invalid("must be an integer")

\* A float field taken whatever float() gives
FloatFieldAny(val) ==
    IF ~val.ok THEN Invalid("must be a number") ELSE Valid(val.v)

FloatField(val) ==
    IF ~val.ok THEN Invalid("must be a number")
    ELSE IF ~isfinite(val.v) THEN Invalid("NaN and Infinity are not allowed")
    ELSE Valid(val.v)

JsonField(r) == IF r.ok THEN Valid(r.v) ELSE Invalid("invalid JSON")

DateField(t) ==
    IF DateOk(t) THEN Valid(JStr(t)) ELSE Invalid("must be a date in yyyy-mm-dd format")

TimeField(t) ==
    IF TimeOk(t) THEN Valid(JStr(t)) ELSE Invalid("must be a time in hh:mm:ss format")

\* One turn of the loop of _collect_values_from_tab: the value of the field, or
\* the message shown for it. raw is what _read_widget_from_tab returns.
ValidateField(field, raw, flag) ==
    CASE field.type = "bool"  -> Valid(JBool(flag))
      [] field.type = "int"   -> IntField(Strip(raw))
      [] field.type = "float" -> FloatField(FloatParse(Strip(raw)))
      [] field.type = "json"  -> JsonField(loads(raw))
      [] field.type = "date"  -> DateField(Strip(raw))
      [] field.type = "time"  -> TimeField(Strip(raw))
      [] field.type = "fixed" -> Valid(JStr(field.value))
      [] OTHER                -> Valid(JStr(raw))

\* _read_widget_from_tab for the text of a widget, and for a bool field's flag
ReadRaw(tab, field) == IF field.type \in {"bool", "fixed"} THEN <<>> ELSE tab.widgets[field.id]

ReadFlag(tab, field) == IF field.type = "bool" THEN tab.vars[field.id] ELSE FALSE

Collected(signal) == [ok |-> TRUE, signal |-> signal, fid |-> <<>>, message |-> ""]

\* return None, after show_status(f"'{fid}': {message}", error=True)
NotCollected(fid, message) ==
    [ok |-> FALSE, signal |-> EmptyDict, fid |-> fid, message |-> message]

RECURSIVE CollectFrom(_, _, _)
\* A turn that passes over an invalid field
TurnSkipping(tab, i, signal, fid, r) ==
    IF ~r.ok THEN CollectFrom(tab, i + 1, signal)
    ELSE CollectFrom(tab, i + 1, Put(signal, fid, r.v))

\* The report of a later invalid field, if there is one, instead of this one's
LaterOr(rest, fid, message) == IF rest.ok THEN NotCollected(fid, message) ELSE rest

\* A turn that goes on after an invalid field
TurnGoingOn(tab, i, signal, fid, r) ==
    IF ~r.ok THEN LaterOr(CollectFrom(tab, i + 1, signal), fid, r.message)
    ELSE CollectFrom(tab, i + 1, Put(signal, fid, r.v))

Turn(tab, i, signal, fid, r) ==
    IF ~r.ok THEN NotCollected(fid, r.message)
    ELSE CollectFrom(tab, i + 1, Put(signal, fid, r.v))

CollectFrom(tab, i, signal) ==
    IF i > Len(tab.fields.v) THEN Collected(signal)
    ELSE Turn(tab, i, signal, tab.fields.v[i].id,
              ValidateField(tab.fields.v[i], ReadRaw(tab, tab.fields.v[i]),
                            ReadFlag(tab, tab.fields.v[i])))

_collect_values_from_tab(tab) == CollectFrom(tab, 1, EmptyDict)

\* int Entry widgets accept an edit only if the new text passes this
_validate_int_keypress(new_value) ==
    new_value \in {<<>>, <<"-">>} \/ IntSyntaxOk(new_value)

(***************************************************************************)
(* app.py: configuration, tabs, rendering, the status bar                   *)
(***************************************************************************)

s_output == <<"o", "u", "t", "p", "u", "t">>

s_OUTBOX == <<"O", "U", "T", "B", "O", "X">>

s_INBOX == <<"I", "N", "B", "O", "X">>

\* A value Python takes for true: neither missing, None nor empty
Truthy(opt) == opt.has /\ opt.v # <<>>

\* The other order: the configured channel before the directive
ConfigFirstChannel(cfg, tab) ==
    IF Truthy(cfg.channel) THEN cfg.channel.v
    ELSE IF Truthy(tab.directives.channel) THEN tab.directives.channel.v
    ELSE s_output

_effective_channel(cfg, tab) ==
    IF Truthy(tab.directives.channel) THEN tab.directives.channel.v
    ELSE IF Truthy(cfg.channel) THEN cfg.channel.v
    ELSE s_output

_effective_outbox(cfg, tab) ==
    IF Truthy(tab.directives.outbox) THEN tab.directives.outbox.v
    ELSE IF cfg.outbox.has THEN cfg.outbox.v
    ELSE s_OUTBOX

_effective_inbox(cfg) == IF cfg.inbox.has THEN cfg.inbox.v ELSE s_INBOX

\* What datetime.date.today().isoformat() and now().strftime("%H:%M:%S") give
\* while the model runs
Today == <<"2", "0", "2", "6", "-", "1", "1", "-", "0", "1">>

TimeNow == <<"1", "1", ":", "1", "7", ":", "2", "5">>

\* The text a widget of _make_widget shows when it is created
InitialText(field) ==
    CASE field.type = "choice" -> field.items[1]
      [] field.type = "date"   -> Today
      [] field.type = "time"   -> TimeNow
      [] field.type = "fixed"  -> field.value
      [] OTHER                 -> <<>>

FieldIds(fields) == {fields[i].id : i \in 1..Len(fields)}

FieldOf(fields, fid) == fields[CHOOSE i \in 1..Len(fields) : fields[i].id = fid]

\* The tab dict of _new_tab, without its filename (only the tab's label shows
\* it). text is the content of the DSL editor; accepted
\* is the text of the tab's most recent successful parse and origin the inbox
\* file the tab was opened for (both kept for the verification, the program
\* holds neither).
TabDict(number, text) ==
    [number |-> number, text |-> text,
     directives |-> NoDirectives, fields |-> None,
     widgets |-> <<>>, vars |-> <<>>, accepted |-> None, origin |-> None]

\* A render that keeps the directives the new parse does not set
RenderedMerging(tab, p) ==
    [tab EXCEPT !.fields = Some(p.fields),
                !.directives = [channel |-> IF p.directives.channel.has
                                            THEN p.directives.channel
                                            ELSE tab.directives.channel,
                                outbox  |-> IF p.directives.outbox.has
                                            THEN p.directives.outbox
                                            ELSE tab.directives.outbox],
                !.widgets = [fid \in FieldIds(p.fields) |->
                                InitialText(FieldOf(p.fields, fid))],
                !.vars = [fid \in {p.fields[i].id : i \in
                                      {j \in 1..Len(p.fields) : p.fields[j].type = "bool"}}
                             |-> FALSE],
                !.accepted = Some(tab.text)]

\* A render that assigns the schema and leaves the controls as they were
RenderedFieldsOnly(tab, p) ==
    [tab EXCEPT !.fields = Some(p.fields),
                !.directives = p.directives,
                !.accepted = Some(tab.text)]

\* tab["fields"], tab["directives"] assigned and _render_form_in_tab run for
\* the result p of a successful parse
Rendered(tab, p) ==
    [tab EXCEPT !.fields = Some(p.fields),
                !.directives = p.directives,
                !.widgets = [fid \in FieldIds(p.fields) |->
                                InitialText(FieldOf(p.fields, fid))],
                !.vars = [fid \in {p.fields[i].id : i \in
                                      {j \in 1..Len(p.fields) : p.fields[j].type = "bool"}}
                             |-> FALSE],
                !.accepted = Some(tab.text)]

\* A render that drops the form when the parse fails
RenderOrClear(tab, p) ==
    IF p.ok THEN Rendered(tab, p)
    ELSE [tab EXCEPT !.fields = None, !.directives = NoDirectives,
                     !.widgets = <<>>, !.vars = <<>>]

\* _auto_render_tab for the result p of the parse: silent on ParseError
AutoRendered(tab, p) == IF p.ok THEN Rendered(tab, p) ELSE tab

_auto_render_tab(tab) == AutoRendered(tab, parse_spec(tab.text))

\* The message of the status bar: its kind and the parts the kind carries
Msg(kind, fid, path) == [kind |-> kind, fid |-> fid, path |-> path]

\* str(e) of a ParseError: "Line <lineno>: <reason>"
ParseErrorMsg(p) ==
    [kind |-> "ParseError", fid |-> <<>>, path |-> <<>>,
     lineno |-> p.lineno, reason |-> p.reason]

\* show_status(msg, error): a pending clear timer is cancelled, a success
\* message starts a new one
show_status(st, msg, error) ==
    LET left == IF st.clear_id # 0 THEN st.timers \ {st.clear_id} ELSE st.timers
        id   == Min((1..(Cardinality(left) + 1)) \ left)
    IN  [msg |-> msg, error |-> error,
         clear_id |-> IF error THEN 0 ELSE id,
         timers |-> IF error THEN left ELSE left \cup {id}]

\* _clear_status() leaves the pending timers as they are
_clear_status(st) ==
    [st EXCEPT !.msg = Msg("", <<>>, <<>>), !.error = FALSE, !.clear_id = 0]

(***************************************************************************)
(* Bounds and the inputs the environment draws from                         *)
(***************************************************************************)

MaxTabs == 2

\* The highest number _new_tab hands out
MaxNumber == 2

MaxUuids == 1

\* "# channel: a\n# outbox: o\nv -- \"x\""
D_a ==
    <<"#", " ", "c", "h", "a", "n", "n", "e", "l", ":", " ", "a", "\n",
      "#", " ", "o", "u", "t", "b", "o", "x", ":", " ", "o", "\n",
      "v", " ", "-", "-", " ", "\"", "x", "\"">>

\* "# channel: b\nv -- \"x\"\nn -- int<3>"
D_b ==
    <<"#", " ", "c", "h", "a", "n", "n", "e", "l", ":", " ", "b", "\n",
      "v", " ", "-", "-", " ", "\"", "x", "\"", "\n",
      "n", " ", "-", "-", " ", "i", "n", "t", "<", "3", ">">>

\* "# channel: c\n# outbox: q\nn -- bool\nn -- date": line 4 repeats n
D_dup ==
    <<"#", " ", "c", "h", "a", "n", "n", "e", "l", ":", " ", "c", "\n",
      "#", " ", "o", "u", "t", "b", "o", "x", ":", " ", "q", "\n",
      "n", " ", "-", "-", " ", "b", "o", "o", "l", "\n",
      "n", " ", "-", "-", " ", "d", "a", "t", "e">>

\* What the user types into the DSL editor
DslTexts == {D_a, D_b, D_dup}

\* What the user types into an entry widget
RawTexts == {<<>>, <<"7">>}

\* The configurations the program is started with: one that leaves both
\* settings to the defaults, one that sets both (its outbox lies below the
\* plain file f, so it cannot be created)
Configs ==
    {[channel |-> Some(<<>>), outbox |-> None, inbox |-> None],
     [channel |-> Some(<<"g">>), outbox |-> Some(<<"f", "/", "p">>), inbox |-> None]}

\* str(uuid.uuid4()), from a pool of MaxUuids identifiers
Uuids == {<<"u", Digits[i + 1]>> : i \in 1..MaxUuids}

\* time.time()
Clock == {JFloat("finite", FALSE, 15, -1)}

\* No write_message of another process is under way
Idle == [pc |-> "idle"]

\* No scan_inbox of another process has returned yet
NoScan == [done |-> FALSE, raised |-> "", results |-> <<>>]

\* The working directory holds a plain file f
InitFs == (Cwd :> DirNode) @@ (<< <<"f">> >> :> FileNode(<<>>))

(***************************************************************************)
(* The editing session: the handlers of app.py                              *)
(***************************************************************************)

Ready == [msg |-> Msg("Ready", <<>>, <<>>), error |-> FALSE, clear_id |-> 0, timers |-> {}]

\* run(config) up to the main loop: one empty tab, selected, whose
\* <<NotebookTabChanged>> event is still in the queue
Init ==
    /\ config \in Configs
    /\ tabs = <<TabDict(1, <<>>)>>
    /\ current = 1
    /\ untitled_count = 1
    /\ tab_event = TRUE
    /\ status = Ready
    /\ poll_scheduled = TRUE
    /\ fs = InitFs
    /\ writer = Idle
    /\ scan = NoScan

SetTab(tab) == tabs' = [tabs EXCEPT ![current] = tab]

\* The user edits the DSL text of the selected tab
EditText ==
    /\ \E text \in DslTexts : SetTab([tabs[current] EXCEPT !.text = text])
    /\ UNCHANGED <<config, current, untitled_count, tab_event, status, poll_scheduled,
                   fs, writer, scan>>

\* The user edits an entry of the rendered form (a fixed field is read-only,
\* an int entry refuses what _validate_int_keypress refuses)
EditWidget ==
    /\ tabs[current].fields.has
    /\ \E i \in 1..Len(tabs[current].fields.v), raw \in RawTexts :
          LET field == tabs[current].fields.v[i]
          IN  /\ field.type \notin {"fixed", "bool", "choice"}
              /\ field.type = "int" => _validate_int_keypress(raw)
              /\ SetTab([tabs[current] EXCEPT !.widgets[field.id] = raw])
    /\ UNCHANGED <<config, current, untitled_count, tab_event, status, poll_scheduled,
                   fs, writer, scan>>

\* <<NotebookTabChanged>> is delivered
_on_tab_changed ==
    /\ tab_event
    /\ tab_event' = FALSE
    /\ SetTab(_auto_render_tab(tabs[current]))
    /\ UNCHANGED <<config, current, untitled_count, status, poll_scheduled, fs, writer, scan>>

handle_ctrl_enter ==
    LET tab == tabs[current]
        p   == parse_spec(tab.text)
    IN  /\ IF ~p.ok
           THEN /\ status' = show_status(status, ParseErrorMsg(p), TRUE)
                /\ UNCHANGED tabs
           ELSE /\ SetTab(Rendered(tab, p))
                /\ status' = show_status(status, Msg("Parsed", <<>>, <<>>), FALSE)
        /\ UNCHANGED <<config, current, untitled_count, tab_event, poll_scheduled,
                       fs, writer, scan>>

\* The status message of an EmitError names the directory or the file
EmitStatus(st, r, outbox) ==
    IF r.ok THEN show_status(st, Msg("Wrote", <<>>, Join(outbox, r.filename)), FALSE)
    ELSE show_status(st, Msg(r.error, <<>>, outbox), TRUE)

\* handle_emit. The environment supplies the clock and the uuid (one that no
\* file of the outbox carries); the operating system lets the write through.
handle_emit ==
    LET tab == tabs[current]
    IN  /\ IF ~tab.fields.has
           THEN /\ status' = show_status(status, Msg("No form rendered", <<>>, <<>>), TRUE)
                /\ UNCHANGED fs
           ELSE LET c == _collect_values_from_tab(tab)
                IN  IF ~c.ok
                    THEN /\ status' = show_status(status, Msg(c.message, c.fid, <<>>), TRUE)
                         /\ UNCHANGED fs
                    ELSE \E now \in Clock, uuid \in Uuids :
                            LET channel == _effective_channel(config, tab)
                                outbox  == PathOf(_effective_outbox(config, tab))
                                r       == emit_message(fs, c.signal, JStr(channel), outbox,
                                                        now, uuid, "none", 0)
                            IN  /\ ~exists(fs, Join(outbox, uuid \o dot_json))
                                /\ fs' = r.fs
                                /\ status' = EmitStatus(status, r, outbox)
        /\ UNCHANGED <<config, tabs, current, untitled_count, tab_event, poll_scheduled,
                       writer, scan>>

\* Another process takes a message file out of an outbox
ConsumeOutbox ==
    /\ \E p \in DOMAIN fs :
          /\ fs[p].kind = "file"
          /\ EndsWith(p[Len(p)], dot_json)
          /\ fs' = Remove(fs, p)
    /\ UNCHANGED <<config, tabs, current, untitled_count, tab_event, status, poll_scheduled,
                   writer, scan>>

\* Ctrl+N: _new_tab()
_new_tab ==
    /\ Len(tabs) < MaxTabs
    /\ untitled_count < MaxNumber
    /\ untitled_count' = untitled_count + 1
    /\ tabs' = Append(tabs, TabDict(untitled_count + 1, <<>>))
    /\ current' = Len(tabs) + 1
    /\ tab_event' = TRUE
    /\ UNCHANGED <<config, status, poll_scheduled, fs, writer, scan>>

\* handle_file_open for a file the dialog returned and open() could read
handle_file_open ==
    /\ Len(tabs) < MaxTabs
    /\ untitled_count < MaxNumber
    /\ \E content \in DslTexts :
          tabs' = Append(tabs, _auto_render_tab(
                      TabDict(untitled_count + 1, content)))
    /\ untitled_count' = untitled_count + 1
    /\ current' = Len(tabs) + 1
    /\ tab_event' = TRUE
    /\ status' = show_status(status, Msg("Opened", <<>>, <<>>), FALSE)
    /\ UNCHANGED <<config, poll_scheduled, fs, writer, scan>>

\* A close that forgets the current tab however many tabs there are
CloseCurrent ==
    /\ tabs' = [i \in 1..(Len(tabs) - 1) |->
                    IF i < current THEN tabs[i] ELSE tabs[i + 1]]
    /\ current' = IF current = Len(tabs) THEN current - 1 ELSE current
    /\ tab_event' = TRUE
    /\ UNCHANGED <<config, untitled_count, status, poll_scheduled, fs, writer, scan>>

\* handle_tab_close: the notebook selects the next tab, or the previous one
\* when the last tab was closed
handle_tab_close ==
    /\ IF Len(tabs) <= 1
       THEN /\ status' = show_status(status, Msg("Cannot close the last tab.", <<>>, <<>>), TRUE)
            /\ UNCHANGED <<tabs, current, tab_event>>
       ELSE /\ tabs' = [i \in 1..(Len(tabs) - 1) |->
                           IF i < current THEN tabs[i] ELSE tabs[i + 1]]
            /\ current' = IF current = Len(tabs) THEN current - 1 ELSE current
            /\ tab_event' = TRUE
            /\ UNCHANGED status
    /\ UNCHANGED <<config, untitled_count, poll_scheduled, fs, writer, scan>>

\* handle_next_tab, when the focus is not in a text or entry widget
handle_next_tab ==
    /\ Len(tabs) > 1
    /\ current' = (current % Len(tabs)) + 1
    /\ tab_event' = TRUE
    /\ UNCHANGED <<config, tabs, untitled_count, status, poll_scheduled, fs, writer, scan>>

\* handle_prev_tab, when the focus is not in a text or entry widget
handle_prev_tab ==
    /\ Len(tabs) > 1
    /\ current' = ((current + Len(tabs) - 2) % Len(tabs)) + 1
    /\ tab_event' = TRUE
    /\ UNCHANGED <<config, tabs, untitled_count, status, poll_scheduled, fs, writer, scan>>

Next ==
    \/ EditText
    \/ EditWidget
    \/ _on_tab_changed
    \/ handle_ctrl_enter
    \/ handle_emit
    \/ ConsumeOutbox
    \/ _new_tab
    \/ handle_file_open
    \/ handle_tab_close
    \/ handle_next_tab
    \/ handle_prev_tab

Spec == Init /\ [][Next]_vars

(***************************************************************************)
(* Properties of the editing session                                        *)
(***************************************************************************)

\* The message files a step adds to the filesystem
NewFiles == {p \in DOMAIN fs' : p \notin DOMAIN fs /\ fs'[p].kind = "file"}

\* The message files there are
MessageFiles == {p \in DOMAIN fs : fs[p].kind = "file" /\ EndsWith(p[Len(p)], dot_json)}

\* The envelope a file of filesystem f holds
Envelope(f, p) == loads(Decode(f[p].data).s).v

\* A step reports that the outbox could not be created
OutboxRefused ==
    /\ status' # status
    /\ status'.msg.kind = "Cannot create OUTBOX directory"

\* Directive first, then the configured value (a channel only if it is not
\* empty), then the default
DirectiveFirstChannel(d, cfg) ==
    IF d.channel.has THEN d.channel.v
    ELSE IF cfg.channel.has /\ cfg.channel.v # <<>> THEN cfg.channel.v
    ELSE s_output

DirectiveFirstOutbox(d, cfg) ==
    IF d.outbox.has THEN d.outbox.v
    ELSE IF cfg.outbox.has THEN cfg.outbox.v
    ELSE s_OUTBOX

\* C1, as the code has it: an emission uses the directive of the tab's schema
\* when there is one, else the configured value (for the channel: when it is not
\* empty), else the default "output" / "OUTBOX". The file goes to that outbox
\* and carries that channel; an outbox that cannot be made is reported by that
\* path.
C1_DirectiveThenConfig ==
    [][/\ \A after \in {fs'} : \A p \in NewFiles :
             /\ Parent(p) = PathOf(DirectiveFirstOutbox(tabs[current].directives, config))
             /\ Get(Envelope(after, p), s_channel)
                    = JStr(DirectiveFirstChannel(tabs[current].directives, config))
       /\ OutboxRefused =>
             status'.msg.path = PathOf(DirectiveFirstOutbox(tabs[current].directives, config))
      ]_vars

\* Reached: the configuration sets both settings, the schema's directives set
\* both to something else, and the message is in the directive's outbox with the
\* directive's channel
C1_Witness ==
    /\ config.channel = Some(<<"g">>)
    /\ config.outbox.has
    /\ \E p \in MessageFiles :
          /\ Parent(p) = <<<<"o">>>>
          /\ Get(Envelope(fs, p), s_channel) = JStr(<<"a">>)

\* C1 as stated: the configured value wins over the directive whenever both
\* are present
C1_ConfigThenDirective ==
    [][/\ \A after \in {fs'} : \A p \in NewFiles :
             /\ config.outbox.has => Parent(p) = PathOf(config.outbox.v)
             /\ config.channel.has /\ config.channel.v # <<>> =>
                    Get(Envelope(after, p), s_channel) = JStr(config.channel.v)
       /\ OutboxRefused /\ config.outbox.has => status'.msg.path = PathOf(config.outbox.v)
      ]_vars

\* parse_spec of the texts a tab can hold, computed once
Parses == [text \in DslTexts \cup {<<>>} |-> parse_spec(text)]

\* The schema a tab holds is the result of parsing its accepted text, or the
\* empty state of a new tab
SchemaOfAccepted(tab) ==
    IF tab.accepted.has
    THEN /\ Parses[tab.accepted.v].ok
         /\ tab.fields = Some(Parses[tab.accepted.v].fields)
         /\ tab.directives = Parses[tab.accepted.v].directives
    ELSE /\ tab.fields = None
         /\ tab.directives = NoDirectives

\* The ids of the fields, in their order
Ids(fields) == [i \in 1..Len(fields) |-> fields[i].id]

\* C2: whatever renders were asked for, each tab's fields and directives are
\* those of its most recent successful parse (or of a new tab if none
\* succeeded), a step that reports a ParseError changes no tab, and an emission
\* writes one signal entry per field of that schema.
C2_FailedParseKeepsSchema ==
    [][/\ \A after \in {tabs'} : \A i \in 1..Len(after) : SchemaOfAccepted(after[i])
       /\ status' # status /\ status'.msg.kind = "ParseError" => tabs' = tabs
       /\ \A after \in {fs'} : \A p \in NewFiles :
             /\ tabs[current].accepted.has
             /\ Keys(Get(Envelope(after, p), s_signal))
                    = Ids(Parses[tabs[current].accepted.v].fields)
      ]_vars

\* Reached: a ParseError is shown for the text of the selected tab, which still
\* holds the form of the text accepted before
C2_Witness ==
    /\ status.msg.kind = "ParseError"
    /\ ~parse_spec(tabs[current].text).ok
    /\ tabs[current].accepted = Some(D_b)
    /\ tabs[current].fields = Some(Parses[D_b].fields)
    /\ tabs[current].widgets[<<"n">>] = <<"7">>

\* Every field of the tab validates
AllValid(tab) ==
    \A i \in 1..Len(tab.fields.v) :
        ValidateField(tab.fields.v[i], ReadRaw(tab, tab.fields.v[i]),
                      ReadFlag(tab, tab.fields.v[i])).ok

\* C3: a step writes a message file only when the selected tab has a form and
\* every field of it validates (so none is written when a field does not), and
\* then the signal's keys are the field ids, each once and nothing else.
C3_AllOrNothing ==
    [][\A after \in {fs'} : \A p \in NewFiles :
          /\ tabs[current].fields.has
          /\ AllValid(tabs[current])
          /\ Keys(Get(Envelope(after, p), s_signal)) = Ids(tabs[current].fields.v)
      ]_vars

\* Reached: the emit request was refused for the field n, and nothing has been
\* written anywhere
C3_Witness ==
    /\ status.msg = Msg("must be an integer", <<"n">>, <<>>)
    /\ tabs[current].fields.has
    /\ ~AllValid(tabs[current])
    /\ DOMAIN fs = DOMAIN InitFs

\* C10: an emission's channel and outbox are resolved from the directives that
\* parsing the tab's accepted text gives, and from nothing an earlier parse set.
C10_FreshDirectives ==
    [][\A after \in {fs'} : \A p \in NewFiles :
          /\ tabs[current].accepted.has
          /\ Parent(p) = PathOf(DirectiveFirstOutbox(
                                    Parses[tabs[current].accepted.v].directives, config))
          /\ Get(Envelope(after, p), s_channel)
                 = JStr(DirectiveFirstChannel(
                            Parses[tabs[current].accepted.v].directives, config))
      ]_vars

\* Reached: the only tab there ever was emitted to the outbox o on channel a,
\* was parsed again with a text that sets channel b and no outbox, and emitted
\* on channel b to the default outbox
C10_Witness ==
    /\ untitled_count = 1
    /\ tabs[1].accepted = Some(D_b)
    /\ \E p \in MessageFiles :
          /\ Parent(p) = <<<<"o">>>>
          /\ Get(Envelope(fs, p), s_channel) = JStr(<<"a">>)
    /\ \E p \in MessageFiles :
          /\ Parent(p) = <<s_OUTBOX>>
          /\ Get(Envelope(fs, p), s_channel) = JStr(<<"b">>)

(***************************************************************************)
(* Inbox polling: _poll_inbox of app.py and the processes that fill the     *)
(* inbox                                                                    *)
(***************************************************************************)

\* The highest tab number the polling session hands out
MaxPolled == 3

\* The inbox the poll looks into
InboxPath == PathOf(_effective_inbox(config))

\* The bytes of a message file as write_message lays them out
FileOf(signal, channel) ==
    MessageBytes(build_message(signal, JStr(channel), JFloat("finite", FALSE, 15, -1)))

\* An envelope as another program may lay it out
ForeignFile(kv) == Encode(dumps(JObj(kv)))

\* What other processes put into the inbox: text messages (one in a file the
\* system holds, one with the empty text), objects on channel text whose
\* signal is a mapping, a sequence, null or missing, objects on another channel
\* or without one, an array, a string, a truncated object, a file that is not
\* UTF-8, and a text message under a name without .json
InboxDrops ==
    {[name |-> <<"b">> \o dot_json, node |-> FileNode(FileOf(JStr(<<>>), s_text))],
     [name |-> <<"b">> \o dot_json,
      node |-> FileNode(ForeignFile(<< <<s_channel, JStr(s_text)>>,
                                     <<s_signal, JArr(<<JStr(D_a)>>)>> >>))],
     [name |-> <<"b">> \o dot_json,
      node |-> FileNode(ForeignFile(<< <<s_channel, JStr(s_text)>>, <<s_signal, JNull>> >>))],
     [name |-> <<"b">> \o dot_json,
      node |-> FileNode(ForeignFile(<< <<s_channel, JStr(s_text)>> >>))],
     [name |-> <<"b">> \o dot_json,
      node |-> FileNode(ForeignFile(<< <<s_signal, JStr(D_a)>> >>))],
     [name |-> <<"b">> \o dot_json, node |-> FileNode(Encode(dumps(JStr(s_text))))]}
    \cup
    {[name |-> <<"a">> \o dot_json, node |-> FileNode(FileOf(JStr(D_a), s_text))],
     [name |-> <<"a">> \o dot_json, node |-> HeldNode(FileOf(JStr(D_a), s_text))],
     [name |-> <<"b">> \o dot_json, node |-> FileNode(FileOf(JStr(D_b), s_text))],
     [name |-> <<"b">> \o dot_json, node |-> FileNode(FileOf(EmptyDict, s_text))],
     [name |-> <<"b">> \o dot_json, node |-> HeldNode(FileOf(JStr(D_b), <<"g">>))],
     [name |-> <<"b">> \o dot_json, node |-> FileNode(Encode(dumps(JArr(<<JInt(1)>>))))],
     [name |-> <<"b">> \o dot_json,
      node |-> FileNode(SubSeq(FileOf(JStr(D_a), s_text), 1, 9))],
     [name |-> <<"b">> \o dot_json, node |-> FileNode(<<"{", "}", "FF">>)],
     [name |-> <<"c", ".", "t", "x", "t">>,
      node |-> FileNode(FileOf(JStr(D_a), s_text))]}

\* What the handlers of one poll work on
PollState ==
    [tabs |-> tabs, current |-> current, untitled_count |-> untitled_count,
     status |-> status, tab_event |-> tab_event, fs |-> fs]

\* _handle_inbox_text(text): _new_tab(text=text) appends and selects the tab,
\* _auto_render_tab renders it, show_status reports it
_handle_inbox_text(st, text) ==
    [st EXCEPT !.tabs = Append(st.tabs,
                               _auto_render_tab(TabDict(st.untitled_count + 1, text))),
               !.untitled_count = st.untitled_count + 1,
               !.current = Len(st.tabs) + 1,
               !.tab_event = TRUE,
               !.status = show_status(st.status, Msg("INBOX", <<>>, <<>>), FALSE)]

\* try: os.remove(filepath) except OSError: pass
Removed(st, filepath) ==
    IF RemoveOk(st.fs, filepath) THEN [st EXCEPT !.fs = Remove(st.fs, filepath)] ELSE st

\* The tab just opened is the one of the file filepath
From(st, filepath) == [st EXCEPT !.tabs[Len(st.tabs)].origin = Some(filepath)]

\* A loop body that removes only the files of text messages
HandledKeepingOthers(st, r) ==
    IF is_text_message(r.message)
    THEN Removed(From(_handle_inbox_text(st, Get(r.message, s_signal).s), r.filepath),
                 r.filepath)
    ELSE st

\* The body of the loop of _poll_inbox for one (filepath, message) of the scan
Handled(st, r) ==
    Removed(IF is_text_message(r.message)
            THEN From(_handle_inbox_text(st, Get(r.message, s_signal).s), r.filepath)
            ELSE st,
            r.filepath)

RECURSIVE PollEntries(_, _, _)
PollEntries(st, results, i) ==
    IF i > Len(results) THEN st
    ELSE PollEntries(Handled(st, results[i]), results, i + 1)

TextCount(results) ==
    Cardinality({i \in 1..Len(results) : is_text_message(results[i].message)})

\* _poll_inbox, run by Tk's timer. An exception that leaves scan_inbox leaves
\* the callback before root.after is reached: Tk reports it and the main loop
\* goes on without a pending poll.
_poll_inbox ==
    /\ poll_scheduled
    /\ \E r \in {scan_inbox(fs, InboxPath)} :
          IF r.raised # ""
          THEN /\ poll_scheduled' = FALSE
               /\ UNCHANGED <<tabs, current, untitled_count, status, tab_event, fs>>
          ELSE /\ untitled_count + TextCount(r.results) <= MaxPolled
               /\ \E st \in {PollEntries(PollState, r.results, 1)} :
                     /\ tabs' = st.tabs
                     /\ current' = st.current
                     /\ untitled_count' = st.untitled_count
                     /\ status' = st.status
                     /\ tab_event' = st.tab_event
                     /\ fs' = st.fs
               /\ poll_scheduled' = TRUE
    /\ UNCHANGED <<config, writer, scan>>

\* Another process puts a complete message file into the inbox, making the
\* directory first if it is missing. The name is a new one (a uuid4): no file
\* carries it and no tab was opened for a file that did.
DropInbox ==
    /\ \E d \in InboxDrops :
          /\ ~exists(fs, Join(InboxPath, d.name))
          /\ \A i \in 1..Len(tabs) : tabs[i].origin # Some(Join(InboxPath, d.name))
          /\ fs' = (Join(InboxPath, d.name) :> d.node) @@ makedirs(fs, InboxPath).fs
    /\ UNCHANGED <<config, tabs, current, untitled_count, status, tab_event,
                   poll_scheduled, writer, scan>>

PollNext ==
    \/ DropInbox
    \/ _poll_inbox
    \/ _on_tab_changed

PollSpec == Init /\ [][PollNext]_vars

(***************************************************************************)
(* Properties of inbox polling                                              *)
(***************************************************************************)

\* The files a step takes out of the filesystem
GoneFiles == DOMAIN fs \ DOMAIN fs'

\* A step in which the poll consumed something: of the steps of the polling
\* session only _poll_inbox removes a file or opens a tab
PollRan == GoneFiles # {} \/ Len(tabs') > Len(tabs)

\* The DSL texts of the text messages among the results, in their order
TextsOf(results) ==
    [i \in 1..TextCount(results) |->
        Get(SelectSeq(results, LAMBDA r : is_text_message(r.message))[i].message,
            s_signal).s]

\* The paths the scan yielded
PathsOf(results) == {results[i].filepath : i \in 1..Len(results)}

MaxEntries == 2

\* The directory the scanning process reads
SharedDir == << <<"d">> >>

\* What the writing process is asked to emit
Letters ==
    {[signal |-> JObj(<< <<(<<"x">>), JInt(1)>> >>), channel |-> <<"h", "e", "l", "l", "o">>],
     [signal |-> JStr(<<U_E9>>), channel |-> <<"c">>]}

\* Where to: the shared directory, a missing directory below a missing one,
\* and a path below the plain file f
Targets == {SharedDir, << <<"x">>, <<"y">> >>, << <<"f">>, <<"s">> >>}

\* What the shared directory can hold at the start: two well-formed message
\* files, a truncated one, one that is not UTF-8, an array, a directory whose
\* name ends in .json (open() raises IsADirectoryError), and a message under
\* another suffix
DirEntries ==
    {[name |-> <<"g">> \o dot_json, node |-> FileNode(FileOf(EmptyDict, <<"g">>))],
     [name |-> <<"w">> \o dot_json, node |-> FileNode(FileOf(JStr(<<>>), s_text))],
     [name |-> <<"t">> \o dot_json,
      node |-> FileNode(SubSeq(FileOf(EmptyDict, <<"g">>), 1, 20))],
     [name |-> <<"k">> \o dot_json, node |-> FileNode(<<"{", "\"", "FF", "\"", "}">>)],
     [name |-> <<"l">> \o dot_json,
      node |-> FileNode(Encode(dumps(JArr(<<JInt(1)>>))))],
     [name |-> <<"s">> \o dot_json, node |-> DirNode],
     [name |-> <<"n", ".", "t", "x", "t">>,
      node |-> FileNode(FileOf(EmptyDict, <<"g">>))]}

\* The filesystem with the shared directory holding the given entries
WithEntries(entries) ==
    [p \in DOMAIN InitFs \cup {SharedDir} \cup {Join(SharedDir, e.name) : e \in entries} |->
        IF p \in DOMAIN InitFs THEN InitFs[p]
        ELSE IF p = SharedDir THEN DirNode
        ELSE (CHOOSE e \in entries : Join(SharedDir, e.name) = p).node]

TransportInit ==
    /\ config = [channel |-> Some(<<>>), outbox |-> None, inbox |-> None]
    /\ tabs = <<TabDict(1, <<>>)>>
    /\ current = 1
    /\ untitled_count = 1
    /\ tab_event = TRUE
    /\ status = Ready
    /\ poll_scheduled = TRUE
    /\ \E entries \in SUBSET DirEntries :
          /\ Cardinality(entries) <= MaxEntries
          /\ fs = WithEntries(entries)
    /\ writer = Idle
    /\ scan = NoScan

\* emit_message(signal, channel, target) is called: build_message makes the
\* envelope, uuid4 names the file (a name no entry of the target carries)
Call ==
    /\ writer.pc = "idle"
    /\ \E target \in Targets, l \in Letters, now \in Clock, uuid \in Uuids :
          /\ ~exists(fs, Join(target, uuid \o dot_json))
          /\ writer' = [pc |-> "called", path |-> target,
                        signal |-> l.signal, channel |-> l.channel,
                        message |-> build_message(l.signal, JStr(l.channel), now),
                        filename |-> uuid \o dot_json,
                        filepath |-> Join(target, uuid \o dot_json),
                        bytes |-> MessageBytes(build_message(l.signal, JStr(l.channel), now)),
                        pos |-> 0, before |-> fs, error |-> "", returned |-> <<>>]
    /\ UNCHANGED <<config, tabs, current, untitled_count, status, tab_event,
                   poll_scheduled, fs, scan>>

\* write_message raises EmitError
Fails(error) == writer' = [writer EXCEPT !.pc = "failed", !.error = error]

\* os.makedirs(outbox_path, exist_ok=True)
MakeDirectory ==
    /\ writer.pc = "called"
    /\ \E made \in {makedirs(fs, writer.path)} :
          /\ fs' = made.fs
          /\ IF made.ok THEN writer' = [writer EXCEPT !.pc = "made"]
             ELSE Fails("Cannot create OUTBOX directory")
    /\ UNCHANGED <<config, tabs, current, untitled_count, status, tab_event,
                   poll_scheduled, scan>>

\* open(filepath, 'w', encoding='utf-8'): the empty file appears, or OSError
OpenFile ==
    /\ writer.pc = "made"
    /\ \/ /\ OpenWOk(fs, writer.filepath)
          /\ fs' = SetFile(fs, writer.filepath, <<>>)
          /\ writer' = [writer EXCEPT !.pc = "open"]
       \/ /\ Fails("Cannot write file")
          /\ UNCHANGED fs
    /\ UNCHANGED <<config, tabs, current, untitled_count, status, tab_event,
                   poll_scheduled, scan>>

\* json.dump and f.write: the next byte reaches the file, or the system
\* refuses it (OSError) and the with-block closes the file as it is
WriteBytes ==
    /\ writer.pc = "open"
    /\ writer.pos < Len(writer.bytes)
    /\ \/ /\ fs' = SetFile(fs, writer.filepath, SubSeq(writer.bytes, 1, writer.pos + 1))
          /\ writer' = [writer EXCEPT !.pos = writer.pos + 1]
       \/ /\ Fails("Cannot write file")
          /\ UNCHANGED fs
    /\ UNCHANGED <<config, tabs, current, untitled_count, status, tab_event,
                   poll_scheduled, scan>>

\* The with-block ends and write_message returns the filename, or the close
\* raises OSError
CloseFile ==
    /\ writer.pc = "open"
    /\ writer.pos = Len(writer.bytes)
    /\ \/ writer' = [writer EXCEPT !.pc = "done", !.returned = writer.filename]
       \/ Fails("Cannot write file")
    /\ UNCHANGED <<config, tabs, current, untitled_count, status, tab_event,
                   poll_scheduled, fs, scan>>

\* The reading process runs scan_inbox on the shared directory
Scan ==
    /\ \E r \in {scan_inbox(fs, SharedDir)} :
          scan' = [done |-> TRUE, raised |-> r.raised, results |-> r.results]
    /\ UNCHANGED <<config, tabs, current, untitled_count, status, tab_event,
                   poll_scheduled, fs, writer>>

TransportNext ==
    \/ Call
    \/ MakeDirectory
    \/ OpenFile
    \/ WriteBytes
    \/ CloseFile
    \/ Scan

TransportSpec == TransportInit /\ [][TransportNext]_vars

(***************************************************************************)
(* Properties of the file transport                                         *)
(***************************************************************************)

\* The entries of the shared directory that the writer is not writing
OtherEntries ==
    {p \in DOMAIN fs : p # Cwd /\ Parent(p) = SharedDir
                       /\ (writer.pc = "idle" \/ p # writer.filepath)}

\* The entries of the shared directory that end in .json and hold a JSON object
WellFormed ==
    {p \in OtherEntries : /\ EndsWith(p[Len(p)], dot_json)
                          /\ ReadJson(fs, p).how = "ok"
                          /\ ReadJson(fs, p).data.t = "obj"}

\* C5 as stated: whatever the directory holds, the scan returns without an
\* error, and the well-formed entries are all among its results
C5_ScanNeverRaises ==
    scan.done =>
        /\ scan.raised = ""
        /\ WellFormed \subseteq PathsOf(scan.results)

\* Every other .json file of the shared directory is valid UTF-8
OthersDecodable ==
    \A p \in OtherEntries :
        EndsWith(p[Len(p)], dot_json) /\ fs[p].kind = "file" => IsUtf8(fs[p].data)

\* The writer is past its call and writes into the shared directory
WritesShared == writer.pc # "idle" /\ writer.path = SharedDir

\* C6 as stated: a scan of the directory a write_message is writing into, taken
\* at any point of the write, returns without an error, and what it yields for
\* the writer's file is the complete envelope; taken after the write has
\* completed, it yields that envelope.
C6_ScanToleratesWriter ==
    [][WritesShared /\ OthersDecodable =>
          \A s \in {scan'} :
             /\ s.raised = ""
             /\ \A i \in 1..Len(s.results) :
                   s.results[i].filepath = writer.filepath =>
                       s.results[i].message = writer.message
             /\ s # scan /\ writer.pc = "done" => writer.filepath \in PathsOf(s.results)
      ]_vars

\* The message files of directory dir in filesystem f
FilesIn(f, dir) ==
    {p \in DOMAIN f : p # Cwd /\ Parent(p) = dir /\ f[p].kind = "file"}

\* C7 as stated: when write_message has raised EmitError, the outbox holds the
\* files it held before the call
C7_FailureLeavesNoFile ==
    writer.pc = "failed" => FilesIn(fs, writer.path) = FilesIn(writer.before, writer.path)

\* Some proper prefix of the path is a plain file
BelowFile(f, path) ==
    \E n \in 1..(Len(path) - 1) :
        exists(f, SubSeq(path, 1, n)) /\ f[SubSeq(path, 1, n)].kind = "file"

\* C8: a write_message whose outbox path lies below a plain file ends in the
\* EmitError of the directory and the filesystem is as it was before the call;
\* a write_message to a missing path with nothing in its way gets its directory
\* and all missing ancestors made before the file is opened, and does not fail
\* for the directory.
C8_OutboxMadeOrRefused ==
    writer.pc \notin {"idle", "called"} =>
        /\ BelowFile(writer.before, writer.path) =>
              /\ writer.pc = "failed"
              /\ writer.error = "Cannot create OUTBOX directory"
              /\ fs = writer.before
        /\ writer.error = "Cannot create OUTBOX directory" =>
              {p \in DOMAIN fs : fs[p].kind = "file"}
                  = {p \in DOMAIN writer.before : writer.before[p].kind = "file"}
        /\ ~BelowFile(writer.before, writer.path) =>
              /\ writer.error # "Cannot create OUTBOX directory"
              /\ \A n \in 1..Len(writer.path) : isdir(fs, SubSeq(writer.path, 1, n))
              /\ exists(fs, writer.filepath) => isdir(fs, writer.path)

\* Reached: the call for the path below the plain file f has failed for the
\* directory
C8_Witness ==
    /\ writer.pc = "failed"
    /\ writer.path = << <<"f">>, <<"s">> >>
    /\ writer.error = "Cannot create OUTBOX directory"
    /\ fs = writer.before

\* Reached: the call for the missing path x/y has made both directories and
\* written its file there
C8_WitnessCreated ==
    /\ writer.pc = "done"
    /\ writer.path = << <<"x">>, <<"y">> >>
    /\ ~exists(writer.before, << <<"x">> >>)
    /\ isdir(fs, << <<"x">>, <<"y">> >>)
    /\ exists(fs, writer.filepath)

\* C9: when write_message has returned, the directory holds exactly one file it
\* did not hold before the call, named <uuid>.json, and that name was returned;
\* the file decodes and parses to an object with the keys channel, timestamp,
\* signal in this order, channel and signal being the arguments and timestamp a
\* string; and a scan of the directory that returns yields that object for that
\* file.
C9_RoundTrip ==
    writer.pc = "done" =>
        /\ FilesIn(fs, writer.path) \ FilesIn(writer.before, writer.path) = {writer.filepath}
        /\ DOMAIN fs \ (DOMAIN writer.before \cup {SubSeq(writer.path, 1, n) :
                                                     n \in 1..Len(writer.path)})
               = {writer.filepath}
        /\ writer.returned = writer.filepath[Len(writer.filepath)]
        /\ \E uuid \in Uuids : writer.returned = uuid \o dot_json
        /\ Decode(fs[writer.filepath].data).ok
        /\ \A doc \in {loads(Decode(fs[writer.filepath].data).s)} :
              /\ doc.ok
              /\ doc.v.t = "obj"
              /\ Keys(doc.v) = <<s_channel, s_timestamp, s_signal>>
              /\ Get(doc.v, s_channel) = JStr(writer.channel)
              /\ Get(doc.v, s_signal) = writer.signal
              /\ Get(doc.v, s_timestamp).t = "str"
              /\ \A r \in {scan_inbox(fs, writer.path)} :
                    r.raised = "" =>
                        \E i \in 1..Len(r.results) :
                            r.results[i] = [filepath |-> writer.filepath, message |-> doc.v]

\* Reached: the envelope with the signal "é" on channel c is complete in the
\* shared directory, next to entries that were there before, and the scan has
\* returned it
C9_Witness ==
    /\ writer.pc = "done"
    /\ writer.path = SharedDir
    /\ writer.signal = JStr(<<U_E9>>)
    /\ OtherEntries # {}
    /\ scan.done
    /\ writer.filepath \in PathsOf(scan.results)

(***************************************************************************)
(* The DSL editor: a text typed line by line and parsed                     *)
(***************************************************************************)

\* The most lines the user types into one editor
MaxLines == 2

\*   : a blank line
L_blank ==
    <<" ", " ">>

\* # note: a comment
L_note ==
    <<"#", " ", "n", "o", "t", "e">>

\* # channel: a
L_chan_a ==
    <<"#", " ", "c", "h", "a", "n", "n", "e", "l", ":", " ", "a">>

\* #channel:b 
L_chan_b ==
    <<"#", "c", "h", "a", "n", "n", "e", "l", ":", "b", " ">>

\* # channel:: a directive without a value
L_chan_none ==
    <<"#", " ", "c", "h", "a", "n", "n", "e", "l", ":">>

\* # outbox: o
L_out_o ==
    <<"#", " ", "o", "u", "t", "b", "o", "x", ":", " ", "o">>

\* n -- bool
L_n_bool ==
    <<"n", " ", "-", "-", " ", "b", "o", "o", "l">>

\* N -- date: an identifier that differs from n in case only
L_N_date ==
    <<"N", " ", "-", "-", " ", "d", "a", "t", "e">>

\* n -- bogus: an unknown type
L_n_bogus ==
    <<"n", " ", "-", "-", " ", "b", "o", "g", "u", "s">>

\* v -- "a#b": a literal holding '#'
L_v_hash ==
    <<"v", " ", "-", "-", " ", "\"", "a", "#", "b", "\"">>

\* w -- "<a -- b>": a literal holding '<', '--', '>' and blanks
L_w_marks ==
    <<"w", " ", "-", "-", " ", "\"", "<", "a", " ", "-", "-", " ", "b", ">", "\"">>

\* e -- "": the empty literal
L_e_empty ==
    <<"e", " ", "-", "-", " ", "\"", "\"">>

\* s -- str<0>
L_s_zero ==
    <<"s", " ", "-", "-", " ", "s", "t", "r", "<", "0", ">">>

\* s -- int<x>
L_s_word ==
    <<"s", " ", "-", "-", " ", "i", "n", "t", "<", "x", ">">>

\* t -- text<5>
L_t_one ==
    <<"t", " ", "-", "-", " ", "t", "e", "x", "t", "<", "5", ">">>

\* t -- json<4, 2>
L_t_ok ==
    <<"t", " ", "-", "-", " ", "j", "s", "o", "n", "<", "4", ",", " ", "2", ">">>

\* t -- text<2,x>
L_t_word ==
    <<"t", " ", "-", "-", " ", "t", "e", "x", "t", "<", "2", ",", "x", ">">>

\* t -- json<0,2>
L_t_zero ==
    <<"t", " ", "-", "-", " ", "j", "s", "o", "n", "<", "0", ",", "2", ">">>

\* c -- choice< a ,b>
L_c_ok ==
    <<"c", " ", "-", "-", " ", "c", "h", "o", "i",
      "c", "e", "<", " ", "a", " ", ",", "b", ">">>

\* d -- choice<>
L_d_none ==
    <<"d", " ", "-", "-", " ", "c", "h", "o", "i", "c", "e", "<", ">">>

\* c -- choice<a,,b>
L_c_gap ==
    <<"c", " ", "-", "-", " ", "c", "h", "o",
      "i", "c", "e", "<", "a", ",", ",", "b", ">">>

\* n bool: no separator
L_nosep ==
    <<"n", " ", "b", "o", "o", "l">>

\*  -- bool: no identifier
L_noid ==
    <<" ", "-", "-", " ", "b", "o", "o", "l">>

\* i -- float<3> # note: an inline comment
L_i_note ==
    <<"i", " ", "-", "-", " ", "f", "l", "o", "a", "t",
      "<", "3", ">", " ", "#", " ", "n", "o", "t", "e">>

\* What the user types into the DSL editor, line by line
DslLines ==
    {L_blank, L_note, L_chan_a, L_chan_b, L_chan_none, L_out_o,
     L_n_bool, L_N_date, L_n_bogus, L_v_hash, L_w_marks, L_e_empty,
     L_s_zero, L_s_word, L_t_one, L_t_ok, L_t_word, L_t_zero,
     L_c_ok, L_d_none, L_c_gap, L_nosep, L_noid, L_i_note}

\* The user types one more line, and Return, at the end of the DSL text
TypeLine ==
    /\ Len(splitlines(tabs[current].text)) < MaxLines
    /\ \E line \in DslLines :
          SetTab([tabs[current] EXCEPT !.text = tabs[current].text \o line \o <<"\n">>])
    /\ UNCHANGED <<config, current, untitled_count, tab_event, status, poll_scheduled,
                   fs, writer, scan>>

EditorNext ==
    \/ TypeLine
    \/ handle_ctrl_enter
    \/ _on_tab_changed

EditorSpec == Init /\ [][EditorNext]_vars

(***************************************************************************)
(* Properties of the parser                                                 *)
(***************************************************************************)

\* The text of the DSL editor
EditorText == tabs[current].text

\* Its lines, as the grammar reads them: trimmed
EditorLines == StripAll(splitlines(tabs[current].text))

\* Ctrl+Enter has parsed the text the editor holds, and rendered its form
EditorRendered ==
    /\ tabs[current].fields.has
    /\ tabs[current].accepted = Some(tabs[current].text)

\* Ctrl+Enter has refused the text the editor holds
EditorRefused(lineno, reason) ==
    /\ status.msg.kind = "ParseError"
    /\ status.msg.lineno = lineno
    /\ status.msg.reason = reason
    /\ \A p \in {parse_spec(tabs[current].text)} : ~p.ok /\ p.lineno = lineno

IsFieldLine(line) == line # <<>> /\ ~StartsWith(line, <<"#">>)

\* The identifier of a field line: the text before the first "--", trimmed
IdentifierOf(line) == Strip(Partition(line, <<"-", "-">>)[1])

\* The text after the first "--", trimmed
RightOf(line) == Strip(Partition(line, <<"-", "-">>)[3])

\* The identifiers of the field lines before line k
EarlierIds(lines, k) ==
    {IdentifierOf(lines[j]) : j \in {i \in 1..(k - 1) : IsFieldLine(lines[i])}}

\* The lines before line k parse, and line k is a field line with a new
\* identifier: the parse gets to the type spec of line k
TypeSpecReached(lines, k) ==
    /\ IsFieldLine(lines[k])
    /\ Contains(lines[k], <<"-", "-">>)
    /\ IdentifierOf(lines[k]) # <<>>
    /\ IdentifierOf(lines[k]) \notin EarlierIds(lines, k)
    /\ ParseLines(SubSeq(lines, 1, k - 1), 1, NoDirectives, <<>>, {}).ok

SchemaIds(fields, lines) ==
    /\ \A i \in 1..Len(fields) : fields[i].id # <<>>
    /\ \A i, j \in 1..Len(fields) : fields[i].id = fields[j].id => i = j
    /\ Ids(fields) = [k \in 1..Len(lines) |-> IdentifierOf(lines[k])]

\* C12: in every successful parse each field identifier is non-empty, no two
\* fields share an identifier (n and N are two identifiers), and the fields
\* stand in the order of their lines
C12_IdsUniqueInOrder ==
    \A p \in {parse_spec(tabs[current].text)} :
        p.ok => SchemaIds(p.fields, SelectSeq(EditorLines, IsFieldLine))

\* The form of "n -- bool" and "N -- date" is rendered
C12_Witness ==
    /\ EditorRendered
    /\ Ids(tabs[current].fields.v) = << <<"n">>, <<"N">> >>

\* A type spec that is a double-quoted literal
IsLiteral(right) ==
    /\ Len(right) >= 2
    /\ right[1] = "\""
    /\ right[Len(right)] = "\""

\* The text between the opening and the closing quote
LiteralText(right) == SubSeq(right, 2, Len(right) - 1)

FixedVerbatim(fields, lines) ==
    \A k \in 1..Len(lines) :
        IsLiteral(RightOf(lines[k]))
            => /\ fields[k].type = "fixed"
               /\ fields[k].value = LiteralText(RightOf(lines[k]))

\* C13: the value of a fixed field is the text between the quotes of its
\* literal, whatever that text is ('#', '<', '>', "--" and blanks included):
\* a parse that succeeds gives every quoted literal's field that value, and no
\* parse fails for a malformed fixed value at a line whose type spec is a
\* quoted literal
C13_FixedVerbatim ==
    \A p \in {parse_spec(tabs[current].text)} :
        /\ p.ok => FixedVerbatim(p.fields, SelectSeq(EditorLines, IsFieldLine))
        /\ ~p.ok /\ p.reason = "malformed fixed value"
               => ~IsLiteral(RightOf(EditorLines[p.lineno]))

\* The lines before line k parse, and line k is a field line that repeats the
\* identifier of one of them
DuplicateAt(lines, k) ==
    /\ IsFieldLine(lines[k])
    /\ Contains(lines[k], <<"-", "-">>)
    /\ IdentifierOf(lines[k]) # <<>>
    /\ IdentifierOf(lines[k]) \in EarlierIds(lines, k)
    /\ ParseLines(SubSeq(lines, 1, k - 1), 1, NoDirectives, <<>>, {}).ok

\* C14: a field line that repeats the identifier of an earlier field line,
\* with no line before it in error, makes the parse fail with "duplicate
\* identifier" and the number of that line, whether or not its own type spec
\* is valid
C14_DuplicateReported ==
    \A p \in {parse_spec(tabs[current].text)}, lines \in {EditorLines} :
        \A k \in 1..Len(lines) :
            DuplicateAt(lines, k)
                => ~p.ok /\ p.lineno = k /\ p.reason = "duplicate identifier"

\* "n -- bool" then "n -- bogus": Ctrl+Enter reports the duplicate of line 2,
\* not its unknown type
C14_Witness ==
    /\ EditorLines = <<L_n_bool, L_n_bogus>>
    /\ EditorRefused(2, "duplicate identifier")

\* Line k is in error: it has no separator, no identifier, the identifier of
\* an earlier field line, or a type spec that is none
Malformed(lines, k) ==
    /\ IsFieldLine(lines[k])
    /\ \/ ~Contains(lines[k], <<"-", "-">>)
       \/ IdentifierOf(lines[k]) = <<>>
       \/ IdentifierOf(lines[k]) \in EarlierIds(lines, k)
       \/ ~_parse_type_spec(TypeSpec(RightOf(lines[k]))).ok

\* The outcome p of a parse whose lines in error are bad
AllOrFirstError(p, lines, bad) ==
    /\ p.ok <=> bad = {}
    /\ p.ok => Len(p.fields) = Len(SelectSeq(lines, IsFieldLine))
    /\ ~p.ok => /\ p.lineno = Min(bad)
                /\ p.fields = <<>>
                /\ p.directives = NoDirectives

\* C15: a parse gives its whole result (a field for every field line) or
\* fails and gives nothing; it fails exactly when a line that is neither blank
\* nor a '#' line is malformed, and the line number of the failure is the
\* position, counted from 1 over all lines, of the first such line
C15_AllOrFirstError ==
    \A p \in {parse_spec(tabs[current].text)}, lines \in {EditorLines} :
        AllOrFirstError(p, lines, {k \in 1..Len(lines) : Malformed(lines, k)})

\* A blank line, then a line without separator: Ctrl+Enter reports line 2 and
\* no form is rendered
C15_Witness ==
    /\ EditorLines = << <<>>, L_nosep >>
    /\ EditorRefused(2, "missing '--' separator")
    /\ ~tabs[current].fields.has

OneIntTypes == {kw_str, kw_int, kw_float}

TwoIntTypes == {kw_text, kw_json}

\* The type spec of a field line is name<params>
HasParams(right) ==
    /\ Contains(TypeSpec(right), <<"<">>)
    /\ EndsWith(TypeSpec(right), <<">">>)

TypeName(right) == Strip(Partition(TypeSpec(right), <<"<">>)[1])

\* The text between the first '<' and the closing '>'
Params(right) ==
    SubSeq(TypeSpec(right), Find(TypeSpec(right), <<"<">>) + 1, Len(TypeSpec(right)) - 1)

\* What is wrong with the size parameters parts of the type name: "" for
\* nothing
ParamFault(name, parts) ==
    IF name \in TwoIntTypes /\ Len(parts) # 2 THEN "shape"
    ELSE IF \E i \in 1..Len(parts) : ~IntSyntaxOk(parts[i]) THEN "integer"
    ELSE IF \E i \in 1..Len(parts) : IntValue(parts[i]) < 1 THEN ">= 1"
    ELSE ""

SizeFault(right) ==
    IF ~HasParams(right) THEN ""
    ELSE IF TypeName(right) \in OneIntTypes THEN ParamFault(TypeName(right), <<Params(right)>>)
    ELSE IF TypeName(right) \in TwoIntTypes
    THEN ParamFault(TypeName(right), Split(Params(right), ","))
    ELSE ""

\* The reasons that mention the fault
ReasonsOf(fault) ==
    CASE fault = "shape"   -> {"expected <width,height>"}
      [] fault = "integer" -> {"width must be an integer", "width and height must be integers"}
      [] fault = ">= 1"    -> {"width must be >= 1", "width and height must be >= 1"}
      [] OTHER             -> {}

SizesOk(field) ==
    /\ field.type \in {"str", "int", "float"} => field.width \in Nat \ {0}
    /\ field.type \in {"text", "json"}
          => field.width \in Nat \ {0} /\ field.height \in Nat \ {0}

\* C16: the widths and heights of a successful parse are integers >= 1; a
\* size parameter that is no integer fails the parse with a reason that
\* mentions "integer", one below 1 with a reason that mentions ">= 1", a
\* text or json line without exactly two parameters with the reason that
\* names <width,height>, each with the number of its line
C16_SizesChecked ==
    \A p \in {parse_spec(tabs[current].text)}, lines \in {EditorLines} :
        /\ p.ok => \A i \in 1..Len(p.fields) : SizesOk(p.fields[i])
        /\ \A k \in 1..Len(lines) :
              TypeSpecReached(lines, k) /\ SizeFault(RightOf(lines[k])) # ""
                  => /\ ~p.ok
                     /\ p.lineno = k
                     /\ p.reason \in ReasonsOf(SizeFault(RightOf(lines[k])))

\* "t -- json<4, 2>" is rendered with its sizes, then "s -- str<0>" is typed
\* and refused
C16_Witness ==
    /\ EditorLines = <<L_t_ok, L_s_zero>>
    /\ EditorRefused(2, "width must be >= 1")
    /\ tabs[current].fields.has
    /\ Len(tabs[current].fields.v) = 1
    /\ tabs[current].fields.v[1].width = 4
    /\ tabs[current].fields.v[1].height = 2

\* The items of choice<params>
ItemsOf(right) == StripAll(Split(Params(right), ","))

IsChoice(right) == HasParams(right) /\ TypeName(right) = kw_choice

ChoiceItems(fields, lines) ==
    \A i \in 1..Len(fields) :
        fields[i].type = "choice"
            => /\ fields[i].items # <<>>
               /\ \A j \in 1..Len(fields[i].items) :
                     /\ fields[i].items[j] # <<>>
                     /\ fields[i].items[j] = Strip(fields[i].items[j])
               /\ fields[i].items = ItemsOf(RightOf(lines[i]))

\* C17: the items of a choice field of a successful parse are a non-empty
\* sequence of non-empty trimmed texts in the order of the line; a choice line
\* with an empty item (an empty list included) fails the parse with "empty
\* item" and its line number
C17_ChoiceItems ==
    \A p \in {parse_spec(tabs[current].text)}, lines \in {EditorLines} :
        /\ p.ok => ChoiceItems(p.fields, SelectSeq(lines, IsFieldLine))
        /\ \A k \in 1..Len(lines) :
              /\ TypeSpecReached(lines, k)
              /\ IsChoice(RightOf(lines[k]))
              /\ \E j \in 1..Len(ItemsOf(RightOf(lines[k]))) :
                    ItemsOf(RightOf(lines[k]))[j] = <<>>
              => ~p.ok /\ p.lineno = k /\ p.reason = "empty item in choice list"

\* "c -- choice< a ,b>" is rendered with the items a and b, then
\* "d -- choice<>" is typed and refused
C17_Witness ==
    /\ EditorLines = <<L_c_ok, L_d_none>>
    /\ EditorRefused(2, "empty item in choice list")
    /\ tabs[current].fields.has
    /\ Len(tabs[current].fields.v) = 1
    /\ tabs[current].fields.v[1].items = << <<"a">>, <<"b">> >>

\* The content of a '#' line
ContentOf(line) == Strip(Tail(line))

\* The value a line gives the directive kw: empty when it gives none
DirectiveValue(line, kw) ==
    IF StartsWith(line, <<"#">>) /\ StartsWith(ContentOf(line), kw)
    THEN Strip(SubSeq(ContentOf(line), Len(kw) + 1, Len(ContentOf(line))))
    ELSE <<>>

\* The value of the last of the lines setting that give kw a value
LastValue(lines, kw, setting) ==
    IF setting = {} THEN None
    ELSE Some(DirectiveValue(lines[CHOOSE k \in setting : \A j \in setting : j <= k], kw))

LastSet(lines, kw) ==
    LastValue(lines, kw, {k \in 1..Len(lines) : DirectiveValue(lines[k], kw) # <<>>})

\* C18: the directives of a successful parse have the keys channel and outbox
\* only, each with a non-empty trimmed value: that of the last '#' line that
\* gives the key a non-empty value; a directive without value neither sets
\* nor clears its key, and no other '#' line has an effect
C18_LastDirectiveWins ==
    \A p \in {parse_spec(tabs[current].text)}, lines \in {EditorLines} :
        p.ok => /\ DOMAIN p.directives = {"channel", "outbox"}
                /\ p.directives.channel = LastSet(lines, kw_channel)
                /\ p.directives.outbox = LastSet(lines, kw_outbox)
                /\ \A key \in DOMAIN p.directives :
                      p.directives[key].has
                          => /\ p.directives[key].v # <<>>
                             /\ p.directives[key].v = Strip(p.directives[key].v)

\* "# channel: a" then "# channel:" are rendered: the channel is still a
C18_Witness ==
    /\ EditorRendered
    /\ EditorLines = <<L_chan_a, L_chan_none>>
    /\ tabs[current].directives.channel = Some(<<"a">>)

(***************************************************************************)
(* A form with several validated fields, filled in and emitted              *)
(***************************************************************************)

\* "n -- int<3>\nx -- float<3>\nd -- date"
D_form ==
    <<"n", " ", "-", "-", " ", "i", "n", "t", "<", "3", ">", "\n",
      "x", " ", "-", "-", " ", "f", "l", "o", "a", "t", "<", "3", ">", "\n",
      "d", " ", "-", "-", " ", "d", "a", "t", "e">>

FormTexts == {D_form}

\* The user pastes the schema into the DSL editor
PasteForm ==
    /\ \E text \in FormTexts : SetTab([tabs[current] EXCEPT !.text = text])
    /\ UNCHANGED <<config, current, untitled_count, tab_event, status, poll_scheduled,
                   fs, writer, scan>>

\* What the user types into a number entry: a lone sign, a decimal, and the
\* spellings of the values that are no numbers
NumberTexts ==
    {<<"-">>, <<"1", ".", "5">>, <<"n", "a", "n">>, <<"-", "I", "n", "f">>,
     <<" ", "i", "n", "f", "i", "n", "i", "t", "y">>}

\* The user edits an int or float entry of the rendered form (an int entry
\* refuses what _validate_int_keypress refuses)
EditNumber ==
    /\ tabs[current].fields.has
    /\ \E i \in 1..Len(tabs[current].fields.v), raw \in NumberTexts :
          /\ tabs[current].fields.v[i].type \in {"int", "float"}
          /\ tabs[current].fields.v[i].type = "int" => _validate_int_keypress(raw)
          /\ SetTab([tabs[current] EXCEPT !.widgets[tabs[current].fields.v[i].id] = raw])
    /\ UNCHANGED <<config, current, untitled_count, tab_event, status, poll_scheduled,
                   fs, writer, scan>>

FormNext ==
    \/ PasteForm
    \/ handle_ctrl_enter
    \/ EditWidget
    \/ EditNumber
    \/ handle_emit
    \/ ConsumeOutbox
    \/ _on_tab_changed

FormSpec == Init /\ [][FormNext]_vars

\* The positions of the fields whose raw input does not validate
InvalidAt(tab) ==
    {i \in 1..Len(tab.fields.v) :
        ~ValidateField(tab.fields.v[i], ReadRaw(tab, tab.fields.v[i]),
                       ReadFlag(tab, tab.fields.v[i])).ok}

\* The report for the field at position i
ReportAt(tab, i) ==
    NotCollected(tab.fields.v[i].id,
                 ValidateField(tab.fields.v[i], ReadRaw(tab, tab.fields.v[i]),
                               ReadFlag(tab, tab.fields.v[i])).message)

FirstFailure(tab, c, bad) ==
    /\ c.ok <=> bad = {}
    /\ ~c.ok => c = ReportAt(tab, Min(bad))

\* C11: the validation of a form goes through the fields in schema order and
\* ends at the first field whose raw input is invalid: what it reports is the
\* id and the message of the earliest invalid field, whatever the fields after
\* it hold, and the status bar shows no report of a field when every field is
\* valid
C11_FirstFailureReported ==
    /\ [](\A tab \in {tabs[current]} :
            tab.fields.has
                => FirstFailure(tab, _collect_values_from_tab(tab), InvalidAt(tab)))
    /\ [][\A tab \in {tabs[current]} :
             status' # status /\ status'.error /\ status'.msg.fid # <<>>
                 => /\ tab.fields.has
                    /\ InvalidAt(tab) # {}
                    /\ status'.msg = Msg(ReportAt(tab, Min(InvalidAt(tab))).message,
                                         ReportAt(tab, Min(InvalidAt(tab))).fid, <<>>)
                    /\ fs' = fs]_vars

\* All three fields hold invalid input and the emit request has reported the
\* first of them
C11_Witness ==
    /\ tabs[current].fields.has
    /\ InvalidAt(tabs[current]) = {1, 2, 3}
    /\ status.error
    /\ status.msg = Msg("must be an integer", <<"n">>, <<>>)

(***************************************************************************)
(* Properties of the inbox scan and of its filter                           *)
(***************************************************************************)

\* The entry p holds a JSON object
HoldsObject(f, p) ==
    /\ f[p].kind = "file"
    /\ Decode(f[p].data).ok
    /\ loads(Decode(f[p].data).s).ok
    /\ loads(Decode(f[p].data).s).v.t = "obj"

\* The entries of dir whose name ends in .json and that hold a JSON object
ObjectEntries(f, dir) ==
    {p \in DOMAIN f : /\ p # Cwd
                      /\ Parent(p) = dir
                      /\ EndsWith(p[Len(p)], dot_json)
                      /\ HoldsObject(f, p)}

\* results is those entries, each with its object, in ascending order of name
IsScanOf(results, f, dir) ==
    /\ PathsOf(results) = ObjectEntries(f, dir)
    /\ \A i \in 1..Len(results) :
          results[i].message = loads(Decode(f[results[i].filepath].data).s).v
    /\ \A i, j \in 1..Len(results) :
          i < j => StrLess(results[i].filepath[Len(results[i].filepath)],
                           results[j].filepath[Len(results[j].filepath)])

ScanResult(r, f, dir) ==
    /\ r.raised = ""
    /\ IF isdir(f, dir) THEN IsScanOf(r.results, f, dir) ELSE r.results = <<>>

\* C19 as stated: the scan of a directory that does not exist returns the
\* empty sequence, and the scan of any other returns exactly its entries that
\* end in .json and hold a JSON object, each with its path and object, in
\* ascending order of file name
C19_ScanResult ==
    \A dir \in Targets : ScanResult(scan_inbox(fs, dir), fs, dir)

\* The parsed documents the .json files of the inbox hold
InboxDocuments ==
    {ReadJson(fs, p).data :
        p \in {q \in DOMAIN fs : /\ q # Cwd
                                 /\ Parent(q) = InboxPath
                                 /\ fs[q].kind = "file"
                                 /\ ReadJson(fs, q).how = "ok"}}

\* An object whose channel is the string text and whose signal is a string
IsTextEnvelope(v) ==
    /\ v.t = "obj"
    /\ \E i \in 1..Len(v.kv) : v.kv[i] = <<s_channel, JStr(s_text)>>
    /\ \E i \in 1..Len(v.kv) : v.kv[i][1] = s_signal /\ v.kv[i][2].t = "str"

\* C20: is_text_message holds of an envelope exactly when it is an object
\* whose channel is the string "text" and whose signal is a string, the empty
\* one included; it is false of what is no object, of another or a missing
\* channel, and of a signal that is missing, null, a mapping or a sequence
C20_TextFilter ==
    \A v \in InboxDocuments : is_text_message(v) <=> IsTextEnvelope(v)

\* A poll has opened a tab for the message whose text is empty
C20_Witness ==
    /\ status.msg.kind = "INBOX"
    /\ Len(tabs) >= 2
    /\ tabs[Len(tabs)].text = <<>>

\* The raw texts of the fields before position i are valid
ValidBefore(tab, i) == \A j \in InvalidAt(tab) : j >= i

\* The raw text of the field at position i, trimmed
TrimmedAt(tab, i) == Strip(ReadRaw(tab, tab.fields.v[i]))

\* The field at position i is an int field whose text is no integer, or a
\* float field whose text is the spelling of NaN or of an infinity
NoInteger(tab, i) ==
    /\ tab.fields.v[i].type = "int"
    /\ ~IntSyntaxOk(TrimmedAt(tab, i))

NoFiniteNumber(tab, i) ==
    /\ tab.fields.v[i].type = "float"
    /\ [k \in 1..Len(Unsigned(TrimmedAt(tab, i))) |-> Lower(Unsigned(TrimmedAt(tab, i))[k])]
           \in {<<"n", "a", "n">>, <<"i", "n", "f">>,
                <<"i", "n", "f", "i", "n", "i", "t", "y">>}

\* The report the text at position i deserves, "" when the claim names none
NumberReport(tab, i) ==
    IF NoInteger(tab, i) THEN "must be an integer"
    ELSE IF NoFiniteNumber(tab, i) THEN "NaN and Infinity are not allowed"
    ELSE ""

\* The values of the int fields of signal are integers, those of its float
\* fields finite floats
NumbersOf(fields, signal) ==
    \A i \in 1..Len(fields) :
        /\ fields[i].type = "int" => Get(signal, fields[i].id).t = "int"
        /\ fields[i].type = "float"
              => /\ Get(signal, fields[i].id).t = "float"
                 /\ Get(signal, fields[i].id).kind = "finite"

NumbersChecked(tab, c) ==
    /\ \A i \in 1..Len(tab.fields.v) :
          ValidBefore(tab, i) /\ NumberReport(tab, i) # ""
              => c = NotCollected(tab.fields.v[i].id, NumberReport(tab, i))
    /\ c.ok => NumbersOf(tab.fields.v, c.signal)

\* C21: an int field whose trimmed text is no integer is reported with its id
\* and "must be an integer", a float field whose text spells NaN or an
\* infinity with its id and "NaN and Infinity are not allowed" (the fields
\* before it being valid); so the int values of every collected signal, and of
\* every message file written, are integers and the float values finite
C21_NumbersChecked ==
    /\ [](\A tab \in {tabs[current]} :
            tab.fields.has => NumbersChecked(tab, _collect_values_from_tab(tab)))
    /\ [][\A after \in {fs'} : \A p \in NewFiles :
             NumbersOf(tabs[current].fields.v, Get(Envelope(after, p), s_signal))]_vars

\* The emit request has reported the float field x, which holds the spelling
\* of an infinity, after the int field n was filled in
C21_Witness ==
    /\ tabs[current].fields.has
    /\ Len(tabs[current].fields.v) = 3
    /\ tabs[current].widgets[<<"n">>] = <<"7">>
    /\ NoFiniteNumber(tabs[current], 2)
    /\ status.error
    /\ status.msg = Msg("NaN and Infinity are not allowed", <<"x">>, <<>>)

(***************************************************************************)
(* Properties of the polling loop                                           *)
(***************************************************************************)

\* The tabs opened for the inbox file p
SeededFrom(ts, p) == {i \in 1..Len(ts) : ts[i].origin = Some(p)}

\* The inbox file p holds a text message
IsTextFile(f, p) ==
    /\ EndsWith(p[Len(p)], dot_json)
    /\ HoldsObject(f, p)
    /\ is_text_message(Envelope(f, p))

\* C22 as stated: over any number of polls every text message file of the
\* inbox seeds exactly one tab: no file has two tabs opened for it, also when
\* its removal fails, and no text message file leaves the inbox without a tab
\* opened for it
C22_ExactlyOnce ==
    /\ [](\A i \in 1..Len(tabs) :
            tabs[i].origin.has => Cardinality(SeededFrom(tabs, tabs[i].origin.v)) = 1)
    /\ [][\A before \in {fs}, after \in {tabs'} : \A p \in GoneFiles :
             IsTextFile(before, p) => Cardinality(SeededFrom(after, p)) = 1]_vars

\* A scheduled poll would change the state: ENABLED <<_poll_inbox>>_vars,
\* written out over the result of the poll
PollEnabled ==
    /\ poll_scheduled
    /\ \A r \in {scan_inbox(fs, InboxPath)} :
          r.raised = "" =>
              /\ untitled_count + TextCount(r.results) <= MaxPolled
              /\ PollEntries(PollState, r.results, 1) # PollState

\* The polling loop with the timer of Tk: root.after runs a scheduled poll
\* after POLL_INTERVAL_MS, so a poll that stays enabled is taken (weak
\* fairness of _poll_inbox)
PollLiveSpec == PollSpec /\ ([]<>(~PollEnabled) \/ []<><<_poll_inbox>>_vars)

\* The names under which message files are put into the inbox
DropNames == {d.name : d \in InboxDrops}

\* A message file the scan yields is in the inbox under the name
Waiting(name) ==
    /\ exists(fs, Join(InboxPath, name))
    /\ EndsWith(name, dot_json)
    /\ HoldsObject(fs, Join(InboxPath, name))

\* The poll has been at the file: it is gone, or the system refuses its
\* removal
Consumed(name) ==
    \/ ~exists(fs, Join(InboxPath, name))
    \/ fs[Join(InboxPath, name)].held

\* The session has opened as many tabs as MaxPolled allows
TabsExhausted ==
    \A r \in {scan_inbox(fs, InboxPath)} :
        r.raised = "" /\ untitled_count + TextCount(r.results) > MaxPolled

\* C23 as stated: polling never stops, every poll ends with the next one
\* scheduled whatever the inbox holds, and so every well-formed message file
\* put into the inbox is consumed in the end
C23_PollingGoesOn ==
    /\ [](poll_scheduled)
    /\ \A name \in DropNames : Waiting(name) ~> (Consumed(name) \/ TabsExhausted)

(***************************************************************************)
(* The status bar: manual clears and the success timer                      *)
(***************************************************************************)

\* The clear timers the session lets be pending at once
MaxTimers == 2

\* handle_ctrl_l: Ctrl+L clears the status bar
handle_ctrl_l ==
    /\ Cardinality(status.timers) < MaxTimers
    /\ status' = _clear_status(status)
    /\ UNCHANGED <<config, tabs, current, untitled_count, tab_event, poll_scheduled,
                   fs, writer, scan>>

\* A timer of root.after(_STATUS_SUCCESS_MS, _clear_status) that is pending
\* fires: Tk runs _clear_status
StatusTimerFires ==
    /\ \E id \in status.timers :
          status' = [_clear_status(status) EXCEPT !.timers = @ \ {id}]
    /\ UNCHANGED <<config, tabs, current, untitled_count, tab_event, poll_scheduled,
                   fs, writer, scan>>

StatusNext ==
    \/ PasteForm
    \/ handle_ctrl_enter
    \/ handle_emit
    \/ ConsumeOutbox
    \/ _on_tab_changed
    \/ handle_ctrl_l
    \/ StatusTimerFires

StatusSpec == Init /\ [][StatusNext]_vars

\* The only timer pending is the one of the success message on display
OneTimerOfLatest ==
    /\ status.timers = (IF status.clear_id = 0 THEN {} ELSE {status.clear_id})
    /\ status.clear_id # 0 => ~status.error /\ status.msg.kind # ""

\* A step in which a timer fires and takes an error message off the bar
ErasedByTimer ==
    /\ status.error
    /\ status'.msg.kind = ""
    /\ status'.timers # status.timers

\* C24 as stated: whatever the status displays and the manual clears (Ctrl+L)
\* were, at most one clear timer is pending and it is the one of the success
\* message shown last, and no timer firing erases an error message
C24_ErrorKept ==
    /\ [](OneTimerOfLatest)
    /\ [][~ErasedByTimer]_vars

(***************************************************************************)
(* The tab list: opening and closing tabs                                   *)
(***************************************************************************)

\* Tabs are opened by Ctrl+N, by File > Open and by text messages of the
\* inbox, selected by Ctrl+Tab and closed by Ctrl+W
TabsNext ==
    \/ _new_tab
    \/ handle_file_open
    \/ handle_tab_close
    \/ handle_next_tab
    \/ DropInbox
    \/ _poll_inbox
    \/ _on_tab_changed

TabsSpec == Init /\ [][TabsNext]_vars

\* The numbers of the tabs of a tab list
NumbersOfTabs(ts) == {ts[i].number : i \in 1..Len(ts)}

\* The status bar says that the last tab cannot be closed
CloseRefused ==
    /\ status.error
    /\ status.msg = Msg("Cannot close the last tab.", <<>>, <<>>)

\* The tabs of the list carry different numbers, all of them handed out
NumbersDistinct ==
    /\ \A i, j \in 1..Len(tabs) : i < j => tabs[i].number < tabs[j].number
    /\ \A i \in 1..Len(tabs) : tabs[i].number \in 1..untitled_count

\* The count of numbers handed out does not go down, and a tab a step opens
\* carries a number above every number handed out before
NumbersFresh ==
    /\ untitled_count' >= untitled_count
    /\ \A n \in NumbersOfTabs(tabs') \ NumbersOfTabs(tabs) :
          n > untitled_count /\ n <= untitled_count'

\* C25: there is always a tab; Ctrl+W on the only tab is refused with an
\* error status and leaves the tab list as it is; tab numbers go up strictly
\* and a number is not used again after a close
C25_TabsKept ==
    /\ [](Len(tabs) >= 1 /\ NumbersDistinct)
    /\ [][/\ NumbersFresh
          /\ (Len(tabs) = 1 /\ handle_tab_close) => (tabs' = tabs /\ CloseRefused')]_vars

\* Ctrl+W was refused on the only tab left, a tab opened after the first one
\* was closed
C25_Witness ==
    /\ Len(tabs) = 1
    /\ tabs[1].number > 1
    /\ untitled_count > tabs[1].number
    /\ CloseRefused

(***************************************************************************)
(* The controls of a rendered form                                          *)
(***************************************************************************)

\* The ids of the bool fields of a schema
BoolIds(fields) == {fields[i].id : i \in {j \in 1..Len(fields) : fields[j].type = "bool"}}

\* The controls of the tab are those of its schema: one widget for every
\* field id and no other, and a value variable for every bool field
ControlsMatch(tab) ==
    tab.fields.has =>
        /\ DOMAIN tab.widgets = FieldIds(tab.fields.v)
        /\ BoolIds(tab.fields.v) \subseteq DOMAIN tab.vars

====
